---- MODULE Spec2Model ----
(***************************************************************************)
(* A model of the Washington law store: the SQLite schema and triggers of  *)
(* src/database/init.ts, the scrapers that write it, and the LawDatabase   *)
(* query layer and tool handler that read it.                              *)
(*                                                                         *)
(* Text that the code parses (citations, rule numbers, file-name fields)   *)
(* is a sequence of one-character strings, so that the regular             *)
(* expressions, split/parseInt conversions and string comparisons of the   *)
(* code are computed, not assumed.  Text that the code only copies (names, *)
(* bodies) is an opaque value; where the code searches and cuts a body,    *)
(* the body is a sequence of pieces with their lengths.                    *)
(***************************************************************************)
EXTENDS Integers, Sequences, FiniteSets, TLC

VARIABLES
    rcw,              \* rows of table rcw
    rcw_fts,          \* index rows of rcw_fts (rowid + indexed columns)
    rcw_seq,          \* AUTOINCREMENT counter of rcw (sqlite_sequence)
    court_rules,      \* rows of table court_rules
    court_rules_fts,  \* index rows of court_rules_fts
    court_rules_seq,  \* AUTOINCREMENT counter of court_rules
    crawl,            \* the rule scraper that is running and its rule set, or idle
    listing,          \* anchors of the listing page that crawl fetched
    rules,            \* the rules array built from the listing
    idx,              \* loop index i into rules
    pace,             \* requests of the rule crawl since its last delay
    run,              \* position of RCWScraper.scrapeAllTitles
    tasks,            \* the functions handed to limit() and how far each is
    queue,            \* the functions limit() holds back, in arrival order
    progress,         \* rows of table scraper_progress, in rowid order
    metadata,         \* table metadata: key -> value
    reply,            \* what the last query-layer call returned
    fetched,          \* the document a scraper last extracted text from, and the text
    matches           \* per family, the bm25 ranks of the rows a query matches

vars == <<rcw, rcw_fts, rcw_seq, court_rules, court_rules_fts, court_rules_seq,
          crawl, listing, rules, idx, pace, run, tasks, queue, progress,
          metadata, reply, fetched, matches>>

rcwVars   == <<rcw, rcw_fts, rcw_seq>>
courtVars == <<court_rules, court_rules_fts, court_rules_seq>>
crawlVars == <<crawl, listing, rules, idx, pace>>
taskVars  == <<run, tasks, queue, progress>>

(***************************************************************************)
(* Bounds of the model.                                                    *)
(***************************************************************************)
MaxRows == 2      \* INSERT OR REPLACE statements run in one behaviour
MaxHits == 2      \* rows of one family that a query matches
MaxLimit == 6     \* the limit a caller passes to searchLaws
MaxLedger == 4    \* rows of scraper_progress up to which a further run is started

(***************************************************************************)
(* Characters and strings.                                                 *)
(***************************************************************************)
\* The characters with codes 46 (".") to 123 ("{"), in code order; the two
\* that a TLA+ string cannot hold are spelled out.
AsciiFrom46 ==
    << ".", "/", "0", "1", "2", "3", "4", "5", "6", "7", "8", "9",
       ":", ";", "<", "=", ">", "?", "@",
       "A", "B", "C", "D", "E", "F", "G", "H", "I", "J", "K", "L", "M",
       "N", "O", "P", "Q", "R", "S", "T", "U", "V", "W", "X", "Y", "Z",
       "[", "backslash", "]", "^", "_", "grave",
       "a", "b", "c", "d", "e", "f", "g", "h", "i", "j", "k", "l", "m",
       "n", "o", "p", "q", "r", "s", "t", "u", "v", "w", "x", "y", "z",
       "{" >>

CharCode(c) == 45 + (CHOOSE i \in 1..Len(AsciiFrom46) : AsciiFrom46[i] = c)

FromCharCode(n) == AsciiFrom46[n - 45]

IsDigit(c)    == CharCode(c) \in 48..57
IsUpper(c)    == CharCode(c) \in 65..90
IsLower(c)    == CharCode(c) \in 97..122
IsLetter(c)   == IsUpper(c) \/ IsLower(c)
IsDigitDot(c) == IsDigit(c) \/ c = "."
IsDigitDotLetter(c) == IsDigitDot(c) \/ IsLetter(c)

ToLower(c) == IF IsUpper(c) THEN FromCharCode(CharCode(c) + 32) ELSE c

\* Length of the longest prefix of s whose characters all satisfy P: what a
\* greedy character-class repetition consumes.
RunLen(s, P(_)) ==
    CHOOSE n \in 0..Len(s) :
        /\ \A i \in 1..n : P(s[i])
        /\ (n = Len(s) \/ ~P(s[n + 1]))

Take(s, n) == SubSeq(s, 1, n)
Drop(s, n) == SubSeq(s, n + 1, Len(s))

StartsWith(s, p) == Len(p) <= Len(s) /\ Take(s, Len(p)) = p

Includes(s, c) == \E i \in 1..Len(s) : s[i] = c

\* String.prototype.split on "."
RECURSIVE Split(_)
Split(s) ==
    IF \A i \in 1..Len(s) : s[i] # "."
    THEN << s >>
    ELSE LET k == CHOOSE i \in 1..Len(s) :
                      s[i] = "." /\ \A j \in 1..(i - 1) : s[j] # "."
         IN  << Take(s, k - 1) >> \o Split(Drop(s, k))

Last(q) == q[Len(q)]

\* parseInt of a string of decimal digits
RECURSIVE ParseInt(_)
ParseInt(s) ==
    IF s = << >> THEN 0
    ELSE ParseInt(Take(s, Len(s) - 1)) * 10 + (CharCode(Last(s)) - 48)

\* Number-to-string conversion of a template literal
RECURSIVE IntToStr(_)
IntToStr(n) ==
    IF n < 10 THEN << FromCharCode(48 + n) >>
    ELSE IntToStr(n \div 10) \o << FromCharCode(48 + (n % 10)) >>

\* SQLite CAST(text AS INTEGER): the value of the longest leading run of digits
CastInteger(s) == ParseInt(Take(s, RunLen(s, IsDigit)))

\* Binary (code point) comparison of two strings: SQLite's BINARY collation and
\* the default Array.prototype.sort order.
RECURSIVE StrLess(_, _)
StrLess(a, b) ==
    IF b = << >> THEN FALSE
    ELSE IF a = << >> THEN TRUE
    ELSE IF a[1] # b[1] THEN CharCode(a[1]) < CharCode(b[1])
    ELSE StrLess(Tail(a), Tail(b))

\* The integers of S in ascending order: the indices a filter keeps
Ascending(S) ==
    CHOOSE q \in [1..Cardinality(S) -> S] :
        \A i, j \in DOMAIN q : i < j => q[i] < q[j]

\* No rule scraper is running; no query has been answered
Idle    == [scraper |-> "none", ruleSet |-> "none"]
NoReply == [op |-> "none"]

\* The pace of a sequential crawl: open counts the requests it has issued
\* since its last delay ended, burst is what open came to at its latest
\* request.  axios.get starts a request, this.delay lets time pass.
Rested == [open |-> 0, burst |-> 0]
Request(p) == [open |-> p.open + 1, burst |-> p.open + 1]
Delay(p)   == [p EXCEPT !.open = 0]

\* setMetadata.run('version', '1.0.0') and setMetadata.run('last_update', now)
\* of the initialization script
InitialMetadata == [version |-> "1.0.0", last_update |-> "time of initialization"]

\* scrapeAllTitles has not been called; limit() has been handed nothing
NotStarted == [phase |-> "idle", titleLinks |-> << >>, t |-> 0]
NoTasks    == << >>

(***************************************************************************)
(* The store: schema, triggers and INSERT OR REPLACE.                      *)
(***************************************************************************)
\* PRAGMA recursive_triggers is never set, so it has SQLite's default, OFF:
\* rows that REPLACE conflict resolution deletes fire no delete trigger.
RecursiveTriggers == FALSE

\* Trigger rcw_ai: AFTER INSERT ON rcw
rcw_ai(fts, new) ==
    fts \cup { [rowid |-> new.id, citation |-> new.citation,
                title_name |-> new.title_name, chapter_name |-> new.chapter_name,
                section_name |-> new.section_name, full_text |-> new.full_text] }

\* Trigger rcw_ad: AFTER DELETE ON rcw
rcw_ad(fts, old) == { x \in fts : x.rowid # old.id }

\* A plain INSERT: no row conflicts
InsertWithoutReplace(table, values) == { }

\* INSERT OR REPLACE INTO rcw (...) VALUES (...): rows that hold the new row's
\* citation (UNIQUE) are deleted, the new row gets the next AUTOINCREMENT id and
\* rcw_ai fires for it.
RCWConflicts(table, values) == { r \in table : r.citation = values.citation }

InsertOrReplaceRCW(values) ==
    LET gone == RCWConflicts(rcw, values)
        new  == [id |-> rcw_seq + 1] @@ values
        kept == IF RecursiveTriggers
                THEN { x \in rcw_fts : \A old \in gone : x \in rcw_ad(rcw_fts, old) }
                ELSE rcw_fts
    IN  /\ rcw' = (rcw \ gone) \cup { new }
        /\ rcw_seq' = rcw_seq + 1
        /\ rcw_fts' = rcw_ai(kept, new)

\* Trigger court_rules_ai: AFTER INSERT ON court_rules
court_rules_ai(fts, new) ==
    fts \cup { [rowid |-> new.id, rule_set |-> new.rule_set,
                rule_number |-> new.rule_number, rule_name |-> new.rule_name,
                full_text |-> new.full_text] }

\* Trigger court_rules_ad: AFTER DELETE ON court_rules
court_rules_ad(fts, old) == { x \in fts : x.rowid # old.id }

\* UNIQUE(rule_set) in place of UNIQUE(rule_set, rule_number)
SameRuleSet(table, values) == { r \in table : r.rule_set = values.rule_set }

\* INSERT OR REPLACE INTO court_rules (...): as for rcw, on UNIQUE(rule_set,
\* rule_number).
CourtRuleConflicts(table, values) ==
    { r \in table : r.rule_set = values.rule_set /\ r.rule_number = values.rule_number }

InsertOrReplaceCourtRule(values) ==
    LET gone == CourtRuleConflicts(court_rules, values)
        new  == [id |-> court_rules_seq + 1] @@ values
        kept == IF RecursiveTriggers
                THEN { x \in court_rules_fts :
                         \A old \in gone : x \in court_rules_ad(court_rules_fts, old) }
                ELSE court_rules_fts
    IN  /\ court_rules' = (court_rules \ gone) \cup { new }
        /\ court_rules_seq' = court_rules_seq + 1
        /\ court_rules_fts' = court_rules_ai(kept, new)

\* Statements run so far stay within the bound of the model.
RoomForInsert == rcw_seq + court_rules_seq < MaxRows

(***************************************************************************)
(* The legislature site (app.leg.wa.gov/RCW): the sections it publishes    *)
(* and the anchors of its pages.  An href is default.aspx?cite=<cite>,     *)
(* with &pdf=true appended on the PDF links.                               *)
(***************************************************************************)
SiteSections ==
    { << "2", ".", "0", "4", ".", "0", "1", "0" >>,
      << "2", ".", "0", "8", ".", "0", "1", "0" >>,
      << "2", ".", "1", "0", ".", "0", "1", "0" >>,
      << "9", ".", "4", "1", ".", "0", "1", "0" >>,
      << "9", ".", "1", "0", "0", ".", "0", "1", "0" >>,
      << "9", "A", ".", "0", "4", ".", "1", "1", "0" >>,
      << "4", "6", ".", "6", "1", ".", "5", "0", "2" >> }

JoinDot(a, b) == a \o << "." >> \o b

SiteTitleOf(s)   == Split(s)[1]
SiteChapterOf(s) == JoinDot(Split(s)[1], Split(s)[2])

\* Sets of strings in ascending code-point order, as a sequence
RECURSIVE SortedStrings(_)
SortedStrings(S) ==
    IF S = {} THEN << >>
    ELSE LET m == CHOOSE x \in S : \A y \in S \ {x} : StrLess(x, y)
         IN  << m >> \o SortedStrings(S \ {m})

Anchor(cite, pdf) == [cite |-> cite, pdf |-> pdf, text |-> << "anchor" >> \o cite]

\* The anchors of the page that default.aspx?cite=<cite> returns, in document
\* order: the titles on the root page (cite empty), the chapters of a title,
\* the sections of a chapter, each section with its PDF link.
RECURSIVE LinkAndPdf(_)
LinkAndPdf(cites) ==
    IF cites = << >> THEN << >>
    ELSE << Anchor(Head(cites), FALSE), Anchor(Head(cites), TRUE) >>
         \o LinkAndPdf(Tail(cites))

SitePage(cite) ==
    IF cite = << >>
    THEN LET ts == SortedStrings({ SiteTitleOf(s) : s \in SiteSections })
         IN  [i \in 1..Len(ts) |-> Anchor(ts[i], FALSE)]
    ELSE IF Len(Split(cite)) = 1
    THEN LET cs == SortedStrings({ SiteChapterOf(s) :
                                     s \in { x \in SiteSections : SiteTitleOf(x) = cite } })
         IN  [i \in 1..Len(cs) |-> Anchor(cs[i], FALSE)]
    ELSE LinkAndPdf(SortedStrings({ s \in SiteSections : SiteChapterOf(s) = cite }))

\* Cleaned body text of a fetched page
Bodies == { "text", "amended text" }

(***************************************************************************)
(* SimpleRCWScraper                                                        *)
(***************************************************************************)
testTitles ==
    << [num |-> << "1" >>,      name |-> << "General Provisions" >>],
       [num |-> << "9" >>,      name |-> << "Crimes and Punishments" >>],
       [num |-> << "9", "A" >>, name |-> << "Criminal Code" >>],
       [num |-> << "4", "6" >>, name |-> << "Motor Vehicles" >>] >>

\* href.match(/cite=([\d.A-Z]+)/i)[1]
MatchCiteDigitDotLetter(cite) == Take(cite, RunLen(cite, IsDigitDotLetter))

\* href.match(/cite=([\d.]+)/)[1]
MatchCiteDigitDot(cite) == Take(cite, RunLen(cite, IsDigitDot))

\* scrapeTitle: the chapter numbers collected from the anchors of a title page
SimpleChapters(titleNum, page) ==
    { JoinDot(Split(MatchCiteDigitDotLetter(page[i].cite))[1],
              Split(MatchCiteDigitDotLetter(page[i].cite))[2]) :
        i \in { j \in DOMAIN page :
                  /\ StartsWith(page[j].cite, titleNum \o << "." >>)
                  /\ Len(Split(MatchCiteDigitDotLetter(page[j].cite))) >= 2 } }

\* scrapeChapter: the section numbers collected from the anchors of a chapter page
SimpleSections(chapterNum, page) ==
    { MatchCiteDigitDot(page[i].cite) :
        i \in { j \in DOMAIN page :
                  /\ StartsWith(page[j].cite, chapterNum \o << "." >>)
                  /\ ~page[j].pdf
                  /\ MatchCiteDigitDot(page[j].cite) # << >> } }

\* scrapeAll: the sections its loops over testTitles, the chapters of a title
\* page and the sections of a chapter page come to
SimpleFound ==
    UNION { UNION { { [title |-> testTitles[i], chapterNum |-> chapterNum,
                       sectionNum |-> sectionNum] :
                        sectionNum \in SimpleSections(chapterNum, SitePage(chapterNum)) } :
                    chapterNum \in SimpleChapters(testTitles[i].num,
                                                  SitePage(testTitles[i].num)) } :
            i \in DOMAIN testTitles }

\* scrapeSection, for one section reached through scrapeTitle and scrapeChapter:
\* the insertStmt.run of a page that was fetched
SimpleScrapeSection ==
    /\ RoomForInsert
    /\ \E found \in SimpleFound :
         \E fullText \in Bodies :
           InsertOrReplaceRCW(
             [citation     |-> found.sectionNum,
              title_num    |-> found.title.num,
              chapter_num  |-> found.chapterNum,
              section_num  |-> Last(Split(found.sectionNum)),
              title_name   |-> found.title.name,
              chapter_name |-> << "title" >> \o found.chapterNum,
              section_name |-> << "title" >> \o found.sectionNum,
              full_text    |-> fullText])
    /\ UNCHANGED <<metadata, fetched, taskVars, courtVars, crawlVars, reply, matches>>

(***************************************************************************)
(* RCWScraper                                                              *)
(***************************************************************************)
Link(num, anchor) == [num |-> num, name |-> anchor.text, url |-> anchor.cite]

\* /default\.aspx\?cite=\d+[A-Z]?$/i
IsTitleHref(a) ==
    LET n == RunLen(a.cite, IsDigit)
    IN  /\ ~a.pdf
        /\ n >= 1
        /\ \/ Len(a.cite) = n
           \/ Len(a.cite) = n + 1 /\ IsLetter(a.cite[n + 1])

\* scrapeAllTitles: titleLinks
TitleLinks(page) ==
    LET hits == SelectSeq(page, IsTitleHref)
    IN  [i \in 1..Len(hits) |-> Link(hits[i].cite, hits[i])]

\* new RegExp(`cite=${titleNum}\\.\\d+(?:\\.\\d+)?`, 'i').test(href)
ChapterPattern(titleNum, cite) ==
    LET n == Len(titleNum)
    IN  /\ Len(cite) >= n + 2
        /\ \A i \in 1..n : ToLower(cite[i]) = ToLower(titleNum[i])
        /\ cite[n + 1] = "."
        /\ IsDigit(cite[n + 2])

\* href.match(/cite=([\d.]+[A-Z]?)/i)[1]
MatchCiteDigitDotThenLetter(cite) ==
    LET n == RunLen(cite, IsDigitDot)
    IN  IF n < Len(cite) /\ IsLetter(cite[n + 1]) THEN Take(cite, n + 1)
        ELSE Take(cite, n)

\* scrapeTitle: chapterLinks
ChapterLinks(titleNum, page) ==
    LET Hit(a) == /\ ~a.pdf
                  /\ ChapterPattern(titleNum, a.cite)
                  /\ RunLen(a.cite, IsDigitDot) >= 1
        hits == SelectSeq(page, Hit)
    IN  [i \in 1..Len(hits) |-> Link(MatchCiteDigitDotThenLetter(hits[i].cite), hits[i])]

\* new RegExp(`cite=${chapterNum.replace('.', '\\.')}\\.\\d+`, 'i').test(href):
\* replace escapes the first dot only, a later dot matches any character
SectionPattern(chapterNum, cite) ==
    LET n == Len(chapterNum)
        FirstDot(i) == chapterNum[i] = "." /\ \A j \in 1..(i - 1) : chapterNum[j] # "."
    IN  /\ Len(cite) >= n + 2
        /\ \A i \in 1..n :
             \/ chapterNum[i] = "." /\ ~FirstDot(i)
             \/ ToLower(cite[i]) = ToLower(chapterNum[i])
        /\ cite[n + 1] = "."
        /\ IsDigit(cite[n + 2])

\* scrapeChapter: sectionLinks, the first anchor of each section number kept
SectionLinks(chapterNum, page) ==
    LET Hit(a) == /\ ~a.pdf
                  /\ SectionPattern(chapterNum, a.cite)
                  /\ MatchCiteDigitDot(a.cite) # << >>
        hits  == SelectSeq(page, Hit)
        First(i) == \A j \in 1..(i - 1) :
                       MatchCiteDigitDot(hits[j].cite) # MatchCiteDigitDot(hits[i].cite)
        keep  == { i \in 1..Len(hits) : First(i) }
    IN  { Link(MatchCiteDigitDot(hits[i].cite), hits[i]) : i \in keep }

\* scrapeAllTitles: the sections its loops over titleLinks, chapterLinks and
\* sectionLinks come to
RCWFound ==
    LET titleLinks == TitleLinks(SitePage(<< >>))
        ChaptersOf(title) == ChapterLinks(title.num, SitePage(title.url))
    IN  UNION { UNION { { [title |-> titleLinks[i],
                           chapter |-> ChaptersOf(titleLinks[i])[k],
                           section |-> section] :
                            section \in SectionLinks(ChaptersOf(titleLinks[i])[k].num,
                                                     SitePage(ChaptersOf(titleLinks[i])[k].url)) } :
                        k \in DOMAIN ChaptersOf(titleLinks[i]) } :
                i \in DOMAIN titleLinks }

\* scrapeSection, for one section reached through scrapeAllTitles, scrapeTitle
\* and scrapeChapter: the insertStmt.run of a page that was fetched
RCWScrapeSection ==
    /\ RoomForInsert
    /\ \E found \in RCWFound :
         \E fullText \in Bodies :
           InsertOrReplaceRCW(
             [citation     |-> found.section.num,
              title_num    |-> found.title.num,
              chapter_num  |-> found.chapter.num,
              section_num  |-> Last(Split(found.section.num)),
              title_name   |-> found.title.name,
              chapter_name |-> found.chapter.name,
              section_name |-> found.section.name,
              full_text    |-> fullText])
    /\ UNCHANGED <<metadata, fetched, taskVars, courtVars, crawlVars, reply, matches>>

(***************************************************************************)
(* RCWScraper, one run of scrapeAllTitles as the event loop runs it.  A    *)
(* task is a function handed to limit(): parent is 0 for a chapter task    *)
(* and the index of the chapter task for a section task.  Its phase is     *)
(* "queued" (held back by limit), "fetch" (its request is in flight),      *)
(* "sections" (a chapter task awaiting Promise.all(sectionPromises)),      *)
(* "delay" (awaiting delay(DELAY_MS)) or "done" (its promise has settled). *)
(***************************************************************************)
\* const limit = pLimit(2)
Concurrency == 2

Active(ts) == { k \in DOMAIN ts : ts[k].phase \in {"fetch", "sections", "delay"} }

\* No limit at all: every function is started when it is handed over
Unlimited(ts) == TRUE

\* p-limit starts a function only while activeCount < concurrency
HasFreeSlot(ts) == Cardinality(Active(ts)) < Concurrency

\* p-limit's queue: the functions held back are started in arrival order, as
\* long as there is a free slot
RECURSIVE Admit(_, _)
Admit(ts, q) ==
    IF q # << >> /\ HasFreeSlot(ts)
    THEN Admit([ts EXCEPT ![Head(q)].phase = "fetch"], Tail(q))
    ELSE [tasks |-> ts, queue |-> q]

\* links.map(link => limit(async () => ...)): one task per link, in order
Limit(ts, q, parent, links) ==
    LET n == Len(ts)
    IN  Admit(ts \o [i \in 1..Len(links) |->
                       [parent |-> parent, link |-> links[i], phase |-> "queued"]],
              q \o [i \in 1..Len(links) |-> n + i])

\* sectionLinks in document order
SectionLinksInOrder(chapterNum, page) ==
    LET links == SectionLinks(chapterNum, page)
        nums  == SortedStrings({ l.num : l \in links })
    IN  [i \in 1..Len(nums) |-> CHOOSE l \in links : l.num = nums[i]]

\* What the three loops find on the site: titleLinks of the root listing,
\* chapterLinks of each title page, sectionLinks of each chapter page
TitlesOnSite == TitleLinks(SitePage(<< >>))

ChaptersOnSite ==
    [i \in DOMAIN TitlesOnSite |->
       ChapterLinks(TitlesOnSite[i].num, SitePage(TitlesOnSite[i].url))]

SectionsOnSite ==
    [chapter \in UNION { { ChaptersOnSite[i][k] : k \in DOMAIN ChaptersOnSite[i] } :
                           i \in DOMAIN ChaptersOnSite } |->
       SectionLinksInOrder(chapter.num, SitePage(chapter.url))]

\* updateProgressStmt.run(titleNum, chapterNum, status, message): the table
\* has no key besides its rowid, every run adds a row
UpdateProgress(titleNum, chapterNum, status) ==
    progress' = Append(progress, [type |-> "RCW", title_num |-> titleNum,
                                  chapter_num |-> chapterNum, status |-> status])

Null == << "null" >>

InFlight ==
    (IF run.phase \in {"root", "title"} THEN 1 ELSE 0)
    + Cardinality({ k \in DOMAIN tasks : tasks[k].phase = "fetch" })

\* scrapeAllTitles is called: the request for the root listing goes out
scrapeAllTitles ==
    /\ run.phase = "idle"
    /\ run' = [run EXCEPT !.phase = "root"]
    /\ UNCHANGED <<metadata, fetched, rcwVars, courtVars, crawlVars, tasks, queue, progress, reply, matches>>

\* The run has settled and scrapeAllTitles is called again, by a new process
\* on the same database file
runAgain ==
    /\ run.phase \in { "resolved", "rejected" }
    /\ Len(progress) <= MaxLedger
    /\ run' = [NotStarted EXCEPT !.phase = "root"]
    /\ tasks' = NoTasks
    /\ queue' = << >>
    /\ UNCHANGED <<metadata, fetched, rcwVars, courtVars, crawlVars, progress, reply, matches>>

\* The root listing arrives: titleLinks, and the loop calls scrapeTitle for
\* the first title, whose page is requested
rootFetched ==
    /\ run.phase = "root"
    /\ run' = IF TitlesOnSite = << >>
               THEN [run EXCEPT !.phase = "resolved"]
               ELSE [phase |-> "title", titleLinks |-> TitlesOnSite, t |-> 1]
    /\ UNCHANGED <<metadata, fetched, rcwVars, courtVars, crawlVars, tasks, queue, progress, reply, matches>>

\* The request for the root listing fails: catch logs and throws the error
\* again, finally closes the database
rootFailed ==
    /\ run.phase = "root"
    /\ run' = [run EXCEPT !.phase = "rejected"]
    /\ UNCHANGED <<metadata, fetched, rcwVars, courtVars, crawlVars, tasks, queue, progress, reply, matches>>

\* scrapeTitle: the title page arrives, its chapters are handed to limit and
\* Promise.all(chapterPromises) is awaited
titleFetched ==
    /\ run.phase = "title"
    /\ LET next == Limit(NoTasks, << >>, 0, ChaptersOnSite[run.t])
       IN  /\ tasks' = next.tasks
           /\ queue' = next.queue
    /\ run' = [run EXCEPT !.phase = "chapters"]
    /\ UNCHANGED <<metadata, fetched, rcwVars, courtVars, crawlVars, progress, reply, matches>>

\* scrapeTitle: the request for the title page fails, catch records the error
\* and scrapeTitle returns; the loop awaits delay(DELAY_MS)
titleFailed ==
    /\ run.phase = "title"
    /\ UpdateProgress(run.titleLinks[run.t].num, Null, "error")
    /\ run' = [run EXCEPT !.phase = "delay"]
    /\ UNCHANGED <<metadata, fetched, rcwVars, courtVars, crawlVars, tasks, queue, reply, matches>>

\* scrapeTitle: every chapter promise has resolved, the title is recorded as
\* completed; the loop awaits delay(DELAY_MS)
titleCompleted ==
    /\ run.phase = "chapters"
    /\ \A k \in DOMAIN tasks : tasks[k].phase = "done"
    /\ UpdateProgress(run.titleLinks[run.t].num, Null, "completed")
    /\ tasks' = NoTasks
    /\ run' = [run EXCEPT !.phase = "delay"]
    /\ UNCHANGED <<metadata, fetched, rcwVars, courtVars, crawlVars, queue, reply, matches>>

\* The delay after a title is over: the next title page is requested, or the
\* loop is over, printStats runs and finally closes the database
nextTitle ==
    /\ run.phase = "delay"
    /\ run' = IF run.t < Len(run.titleLinks)
              THEN [run EXCEPT !.phase = "title", !.t = run.t + 1]
              ELSE [run EXCEPT !.phase = "resolved"]
    /\ UNCHANGED <<metadata, fetched, rcwVars, courtVars, crawlVars, tasks, queue, progress, reply, matches>>

\* scrapeChapter: the chapter page arrives, its sections are handed to the
\* same limit and Promise.all(sectionPromises) is awaited
chapterFetched ==
    \E k \in DOMAIN tasks :
      /\ tasks[k].parent = 0
      /\ tasks[k].phase = "fetch"
      /\ LET next == Limit([tasks EXCEPT ![k].phase = "sections"], queue, k,
                           SectionsOnSite[tasks[k].link])
         IN  /\ tasks' = next.tasks
             /\ queue' = next.queue
      /\ UNCHANGED <<metadata, fetched, rcwVars, courtVars, crawlVars, run, progress, reply, matches>>

\* scrapeChapter: the request for the chapter page fails, catch records the
\* error; the task awaits delay(DELAY_MS)
chapterFailed ==
    \E k \in DOMAIN tasks :
      /\ tasks[k].parent = 0
      /\ tasks[k].phase = "fetch"
      /\ UpdateProgress(Null, tasks[k].link.num, "error")
      /\ tasks' = [tasks EXCEPT ![k].phase = "delay"]
      /\ UNCHANGED <<metadata, fetched, rcwVars, courtVars, crawlVars, run, queue, reply, matches>>

\* scrapeChapter: every section promise has resolved, the chapter is recorded
\* as completed; the task awaits delay(DELAY_MS)
chapterCompleted ==
    \E k \in DOMAIN tasks :
      /\ tasks[k].parent = 0
      /\ tasks[k].phase = "sections"
      /\ \A j \in DOMAIN tasks : tasks[j].parent = k => tasks[j].phase = "done"
      /\ UpdateProgress(Null, tasks[k].link.num, "completed")
      /\ tasks' = [tasks EXCEPT ![k].phase = "delay"]
      /\ UNCHANGED <<metadata, fetched, rcwVars, courtVars, crawlVars, run, queue, reply, matches>>

\* Text of the page of a section
SectionText == "text"

\* scrapeSection: the section page arrives and insertStmt.run stores it; the
\* task awaits delay(DELAY_MS)
sectionFetched ==
    \E k \in DOMAIN tasks :
      /\ tasks[k].parent # 0
      /\ tasks[k].phase = "fetch"
      /\ LET title   == run.titleLinks[run.t]
             chapter == tasks[tasks[k].parent].link
             section == tasks[k].link
         IN  InsertOrReplaceRCW(
               [citation     |-> section.num,
                title_num    |-> title.num,
                chapter_num  |-> chapter.num,
                section_num  |-> Last(Split(section.num)),
                title_name   |-> title.name,
                chapter_name |-> chapter.name,
                section_name |-> section.name,
                full_text    |-> SectionText])
      /\ tasks' = [tasks EXCEPT ![k].phase = "delay"]
      /\ UNCHANGED <<metadata, fetched, courtVars, crawlVars, run, queue, progress, reply, matches>>

\* scrapeSection without its catch: the rejection reaches Promise.all and the
\* catch of scrapeChapter, which records the chapter as failed
sectionRejects ==
    \E k \in DOMAIN tasks :
      /\ tasks[k].parent # 0
      /\ tasks[k].phase = "fetch"
      /\ UpdateProgress(Null, tasks[tasks[k].parent].link.num, "error")
      /\ tasks' = [tasks EXCEPT ![k].phase = "delay", ![tasks[k].parent].phase = "delay"]
      /\ UNCHANGED <<metadata, fetched, rcwVars, courtVars, crawlVars, run, queue, reply, matches>>

\* scrapeSection: the request or the insert fails, catch logs the error; the
\* task awaits delay(DELAY_MS)
sectionFailed ==
    \E k \in DOMAIN tasks :
      /\ tasks[k].parent # 0
      /\ tasks[k].phase = "fetch"
      /\ tasks' = [tasks EXCEPT ![k].phase = "delay"]
      /\ UNCHANGED <<metadata, fetched, rcwVars, courtVars, crawlVars, run, queue, progress, reply, matches>>

\* The delay of a task is over and its promise resolves: p-limit frees the
\* slot and starts the function at the head of its queue
taskDone ==
    \E k \in DOMAIN tasks :
      /\ tasks[k].phase = "delay"
      /\ LET next == Admit([tasks EXCEPT ![k].phase = "done"], queue)
         IN  /\ tasks' = next.tasks
             /\ queue' = next.queue
      /\ UNCHANGED <<metadata, fetched, rcwVars, courtVars, crawlVars, run, progress, reply, matches>>

(***************************************************************************)
(* The courts site (www.courts.wa.gov): the anchors of a rule-set listing  *)
(* page.  A PDF href is <dir>court_rules/pdf/<set>/<group>_<set>_<f1>_<f2>_*)
(* <f3>.pdf, a display href is /court_rules/?fa=court_rules.display&...    *)
(* &set=<set>&ruleid=clj<ruleid>.  The anchor text is "<set> <num> - <name>"*)
(* when num is not empty and "<name>" when it is.                          *)
(***************************************************************************)
PdfAnchor(dir, group, set, f1, f2, f3, num, name) ==
    [kind |-> "pdf", dir |-> dir, group |-> group, set |-> set,
     fields |-> << f1, f2, f3 >>, ruleid |-> << >>,
     text |-> [num |-> num, name |-> name]]

DisplayAnchor(set, ruleid, num, name) ==
    [kind |-> "display", dir |-> "/", group |-> "clj", set |-> set,
     fields |-> << >>, ruleid |-> ruleid,
     text |-> [num |-> num, name |-> name]]

\* The listing page the site serves for each rule set.  A rule is linked
\* twice, by a relative and by an absolute path, and once more under a file
\* name without zero padding; the files of a rule and of its sub-part stand
\* out of order; the CRLJ page still carries the display links
\* of the older site next to the PDF links.
ListingPage(set) ==
    CASE set = "RPC" ->
           << PdfAnchor("../", "GA", "RPC", << "0", "1" >>, << "0", "7" >>, << "0", "1" >>,
                        << >>, "Comment"),
              PdfAnchor("../", "GA", "RPC", << "0", "1" >>, << "0", "7" >>, << "0", "0" >>,
                        << "1", ".", "7" >>, "Conflict of Interest"),
              PdfAnchor("/", "GA", "RPC", << "0", "1" >>, << "0", "7" >>, << "0", "0" >>,
                        << >>, "Conflict of Interest"),
              PdfAnchor("/", "GA", "RPC", << "1" >>, << "7" >>, << "0" >>,
                        << "1", ".", "7" >>, "Conflict of Interest") >>
      [] set = "RALJ" ->
           << PdfAnchor("../", "CLJ", "RALJ", << "0", "1" >>, << "0", "7" >>, << "0", "1" >>,
                        << "1", ".", "7" >>, ""),
              PdfAnchor("../", "CLJ", "RALJ", << "0", "1" >>, << "0", "7" >>, << "0", "0" >>,
                        << "1", ".", "7" >>, "Scope of Rules"),
              PdfAnchor("/", "CLJ", "RALJ", << "0", "1" >>, << "0", "7" >>, << "0", "0" >>,
                        << >>, "Scope") >>
      [] set = "IRLJ" ->
           << PdfAnchor("../", "CLJ", "IRLJ", << "0", "1" >>, << "0", "7" >>, << "0", "0" >>,
                        << "1", ".", "7" >>, "Scope"),
              PdfAnchor("/", "CLJ", "IRLJ", << "0", "1" >>, << "0", "7" >>, << "0", "0" >>,
                        << >>, "Scope"),
              PdfAnchor("../", "CLJ", "IRLJ", << "0", "1" >>, << "0", "7" >>, << "0", "1" >>,
                        << >>, "Comment") >>
      [] set = "CRLJ" ->
           << DisplayAnchor("CRLJ", << "c", "r", "l", "j", "6", "0" >>, << "6", "0" >>,
                            "Relief"),
              PdfAnchor("/", "CLJ", "CRLJ", << "6", "0" >>, << "0", "0" >>, << "0", "0" >>,
                        << "6", "0" >>, "Relief from Judgment"),
              PdfAnchor("../", "CLJ", "CRLJ", << "6", "0" >>, << "0", "0" >>, << "0", "0" >>,
                        << >>, ""),
              DisplayAnchor("CRLJ", << "c", "r", "l", "j", "6", "0" >>, << >>,
                            "Relief from Judgment") >>

IsDigits(f) == f # << >> /\ \A i \in DOMAIN f : IsDigit(f[i])

\* The absolute URL built from a PDF href: both directory forms resolve to the
\* same address.
PdfUrl(a) == [group |-> a.group, set |-> a.set, fields |-> a.fields]

DefaultRuleName(ruleNumber) == << "Rule " >> \o ruleNumber

\* Array.prototype.sort with a comparator: a stable sort
StableSort(q, Less(_, _)) ==
    LET Insert(sorted, x) ==
            LET p == Cardinality({ i \in DOMAIN sorted : ~Less(x, sorted[i]) })
            IN  Take(sorted, p) \o << x >> \o Drop(sorted, p)
        upTo[k \in 0..Len(q)] ==
            IF k = 0 THEN << >> ELSE Insert(upTo[k - 1], q[k])
    IN  upTo[Len(q)]

\* The "avoid duplicates" push of the PDF scrapers: a rule is pushed unless a
\* rule with its number is in the array already.
FirstOfEachNumber(found) ==
    LET keep == { i \in DOMAIN found :
                    \A j \in 1..(i - 1) : found[j].ruleNumber # found[i].ruleNumber }
        pos  == Ascending(keep)
    IN  [i \in DOMAIN pos |-> found[pos[i]]]

(***************************************************************************)
(* RPCScraper                                                              *)
(***************************************************************************)
\* parseInt(fileMatch[1]).parseInt(fileMatch[2]), and the letter of the third
\* field when that field is not the string 00
RPCRuleNumber(fields) ==
    JoinDot(IntToStr(ParseInt(fields[1])), IntToStr(ParseInt(fields[2])))
      \o (IF fields[3] # << "0", "0" >>
          THEN << FromCharCode(96 + ParseInt(fields[3])) >>
          ELSE << >>)

RPCIsRuleLink(a) ==
    /\ a.kind = "pdf" /\ a.set = "RPC"
    /\ a.group = "GA" /\ \A k \in 1..3 : IsDigits(a.fields[k])

\* The prefix "RPC <num> - " is removed; a text without it, or with nothing
\* after it, gives the default name.
RPCRuleName(a, ruleNumber) ==
    IF a.text.num # << >> /\ a.text.name # ""
    THEN << a.text.name >>
    ELSE DefaultRuleName(ruleNumber)

\* (\d+)\.(\d+)([a-z]?) on a rule number
RPCParts(ruleNumber) ==
    LET n1   == RunLen(ruleNumber, IsDigit)
        rest == Drop(ruleNumber, n1 + 1)
        n2   == RunLen(rest, IsDigit)
    IN  [main   |-> ParseInt(Take(ruleNumber, n1)) * 1000 + ParseInt(Take(rest, n2)),
         letter |-> IF n2 < Len(rest) /\ IsLower(rest[n2 + 1])
                    THEN << rest[n2 + 1] >> ELSE << >>]

RPCLess(a, b) ==
    \/ RPCParts(a.ruleNumber).main < RPCParts(b.ruleNumber).main
    \/ /\ RPCParts(a.ruleNumber).main = RPCParts(b.ruleNumber).main
       /\ StrLess(RPCParts(a.ruleNumber).letter, RPCParts(b.ruleNumber).letter)

\* scrapeRPC: the rules array after the anchor loop and the sort
RPCRules(page) ==
    LET hits  == SelectSeq(page, RPCIsRuleLink)
        found == [i \in DOMAIN hits |->
                    [ruleSet    |-> "RPC",
                     ruleNumber |-> RPCRuleNumber(hits[i].fields),
                     ruleName   |-> RPCRuleName(hits[i], RPCRuleNumber(hits[i].fields)),
                     pdfUrl     |-> PdfUrl(hits[i])]]
    IN  StableSort(FirstOfEachNumber(found), RPCLess)

(***************************************************************************)
(* RALJScraper                                                             *)
(***************************************************************************)
\* parseInt(fileMatch[1]).parseInt(fileMatch[2]), and the third field as a
\* decimal extension when it is not the string 00 and its value is positive
RALJRuleNumber(fields) ==
    JoinDot(IntToStr(ParseInt(fields[1])), IntToStr(ParseInt(fields[2])))
      \o (IF fields[3] # << "0", "0" >> /\ ParseInt(fields[3]) > 0
          THEN << "." >> \o IntToStr(ParseInt(fields[3]))
          ELSE << >>)

RALJIsRuleLink(a) ==
    /\ a.kind = "pdf" /\ a.set = "RALJ"
    /\ a.group = "CLJ" /\ \A k \in 1..3 : IsDigits(a.fields[k])

RALJRuleName(a, ruleNumber) ==
    IF a.text.num # << >> /\ a.text.name # ""
    THEN << a.text.name >>
    ELSE DefaultRuleName(ruleNumber)

\* The comparator of scrapeRALJ: the dot-separated parts as integers, a missing
\* part as 0
RECURSIVE PartsLess(_, _)
PartsLess(a, b) ==
    IF a = << >> /\ b = << >> THEN FALSE
    ELSE LET x == IF a = << >> THEN 0 ELSE ParseInt(Head(a))
             y == IF b = << >> THEN 0 ELSE ParseInt(Head(b))
         IN  IF x # y THEN x < y
             ELSE PartsLess(IF a = << >> THEN a ELSE Tail(a),
                            IF b = << >> THEN b ELSE Tail(b))

RALJLess(a, b) == PartsLess(Split(a.ruleNumber), Split(b.ruleNumber))

\* scrapeRALJ: the rules array after the anchor loop and the sort
RALJRules(page) ==
    LET hits  == SelectSeq(page, RALJIsRuleLink)
        found == [i \in DOMAIN hits |->
                    [ruleSet    |-> "RALJ",
                     ruleNumber |-> RALJRuleNumber(hits[i].fields),
                     ruleName   |-> RALJRuleName(hits[i], RALJRuleNumber(hits[i].fields)),
                     pdfUrl     |-> PdfUrl(hits[i])]]
    IN  StableSort(FirstOfEachNumber(found), RALJLess)

(***************************************************************************)
(* CourtRulesPDFScraperV2                                                  *)
(***************************************************************************)
\* parseInt(fileMatch[1]).parseInt(fileMatch[2]): the third field is matched
\* and not used
PDFRuleNumber(fields) ==
    JoinDot(IntToStr(ParseInt(fields[1])), IntToStr(ParseInt(fields[2])))

PDFIsRuleLink(ruleSet, a) ==
    /\ a.kind = "pdf" /\ a.set = ruleSet
    /\ a.group = "CLJ" /\ \A k \in 1..3 : IsDigits(a.fields[k])

\* "<ruleSet> <ruleNumber>" is removed from the text where it occurs (the dot
\* of the number matching any character); an empty rest gives the default.
PDFRuleName(a, ruleNumber) ==
    LET Same(n) == /\ Len(n) = Len(ruleNumber)
                   /\ \A i \in DOMAIN n : ruleNumber[i] = "." \/ ruleNumber[i] = n[i]
        rest == IF a.text.num = << >> THEN << a.text.name >>
                ELSE IF Same(a.text.num) THEN << "- " \o a.text.name >>
                ELSE << "text" >> \o a.text.num \o << a.text.name >>
    IN  IF rest = << "" >> THEN DefaultRuleName(ruleNumber) ELSE rest

\* scrapeRuleSet: the rules array after the anchor loop (it is not sorted)
PDFRules(ruleSet, page) ==
    LET Hit(a) == PDFIsRuleLink(ruleSet, a)
        hits   == SelectSeq(page, Hit)
        found  == [i \in DOMAIN hits |->
                     [ruleSet    |-> ruleSet,
                      ruleNumber |-> PDFRuleNumber(hits[i].fields),
                      ruleName   |-> PDFRuleName(hits[i], PDFRuleNumber(hits[i].fields)),
                      pdfUrl     |-> PdfUrl(hits[i])]]
    IN  FirstOfEachNumber(found)

(***************************************************************************)
(* CourtRulesScraper                                                       *)
(***************************************************************************)
\* href.match(/ruleid=clj[a-z]+(.+?)$/i)[1], its leading letters removed
DisplayRuleNumber(ruleid) ==
    LET n    == RunLen(ruleid, IsLetter)
        tail == IF n = Len(ruleid) THEN << Last(ruleid) >> ELSE Drop(ruleid, n)
    IN  Drop(tail, RunLen(tail, IsLetter))

\* /ruleid=clj[a-z]+(.+?)$/i needs a letter and one more character
DisplayIsRuleLink(ruleSet, a) ==
    /\ a.kind = "display" /\ a.set = ruleSet
    /\ Len(a.ruleid) >= 2 /\ IsLetter(a.ruleid[1])

\* scrapeRuleSet: the number and name captured from the anchor text, the
\* number of the href when the text does not match
DisplayRule(ruleSet, a) ==
    LET n == RunLen(a.text.num, IsDigitDot)
        textMatch == n >= 1
    IN  [ruleSet    |-> ruleSet,
         ruleNumber |-> IF textMatch THEN Take(a.text.num, n)
                        ELSE DisplayRuleNumber(a.ruleid),
         ruleName   |-> IF textMatch
                        THEN << "text" >> \o Drop(a.text.num, n) \o << "- " \o a.text.name >>
                        ELSE << a.text.name >>,
         pdfUrl     |-> [group |-> "display", set |-> a.set, fields |-> << a.ruleid >>]]

\* new Map(rules.map(r => [key, r])).values(): a key keeps the place of its
\* first rule and the value of its last
DisplayRules(ruleSet, page) ==
    LET Hit(a) == DisplayIsRuleLink(ruleSet, a)
        hits   == SelectSeq(page, Hit)
        found  == [i \in DOMAIN hits |-> DisplayRule(ruleSet, hits[i])]
        first  == { i \in DOMAIN found :
                      \A j \in 1..(i - 1) : found[j].ruleNumber # found[i].ruleNumber }
        pos    == Ascending(first)
        LastOf(i) == CHOOSE j \in DOMAIN found :
                         /\ found[j].ruleNumber = found[i].ruleNumber
                         /\ \A k \in DOMAIN found :
                              found[k].ruleNumber = found[i].ruleNumber => k <= j
    IN  [i \in DOMAIN pos |-> found[LastOf(pos[i])]]

(***************************************************************************)
(* A run of a rule scraper over one rule set.                              *)
(***************************************************************************)
RuleSetsOf(scraper) ==
    CASE scraper = "RPCScraper" -> { "RPC" }
      [] scraper = "RALJScraper" -> { "RALJ" }
      [] scraper = "CourtRulesPDFScraperV2" -> { "IRLJ", "CRLJ" }
      [] scraper = "CourtRulesScraper" -> { "IRLJ", "CRLJ" }

RulesFound(scraper, ruleSet, page) ==
    CASE scraper = "RPCScraper" -> RPCRules(page)
      [] scraper = "RALJScraper" -> RALJRules(page)
      [] scraper = "CourtRulesPDFScraperV2" -> PDFRules(ruleSet, page)
      [] scraper = "CourtRulesScraper" -> DisplayRules(ruleSet, page)

\* The rules array each scraper builds from the listing page of each of its
\* rule sets
RulesOnSite ==
    [scraper \in { "RPCScraper", "RALJScraper", "CourtRulesPDFScraperV2", "CourtRulesScraper" } |->
       [ruleSet \in RuleSetsOf(scraper) |-> RulesFound(scraper, ruleSet, ListingPage(ruleSet))]]

\* The listing page is fetched and the rules array built
StartCrawl(scraper) ==
    /\ crawl.scraper = "none"
    /\ \E ruleSet \in RuleSetsOf(scraper) :
         /\ crawl' = [scraper |-> scraper, ruleSet |-> ruleSet]
         /\ listing' = ListingPage(ruleSet)
         /\ rules' = RulesOnSite[scraper][ruleSet]
         /\ idx' = 0
    /\ pace' = Request(pace)
    /\ UNCHANGED <<metadata, fetched, taskVars, rcwVars, courtVars, reply, matches>>

scrapeRPC     == StartCrawl("RPCScraper")
scrapeRALJ    == StartCrawl("RALJScraper")
scrapeRuleSetPDF == StartCrawl("CourtRulesPDFScraperV2")
scrapeRuleSet == StartCrawl("CourtRulesScraper")

\* One turn of the loop over rules: the document of the rule is fetched, its
\* text extracted and insertStmt.run stores it; the turn ends with this.delay.  The PDF scrapers give a rule
\* that has the default name the heading they find in the document.
downloadAndParseRule ==
    /\ crawl.scraper # "none"
    /\ idx < Len(rules)
    /\ RoomForInsert
    /\ \E fullText \in Bodies :
         \E nameMatch \in BOOLEAN :
           LET rule == rules[idx + 1]
               ruleName == IF nameMatch THEN << "heading of the document" >>
                           ELSE rule.ruleName
           IN  /\ nameMatch => /\ crawl.scraper # "CourtRulesScraper"
                               /\ rule.ruleName = DefaultRuleName(rule.ruleNumber)
               /\ InsertOrReplaceCourtRule(
                    [rule_set    |-> rule.ruleSet,
                     rule_number |-> rule.ruleNumber,
                     rule_name   |-> ruleName,
                     full_text   |-> fullText])
               /\ rules' = [rules EXCEPT ![idx + 1].ruleName = ruleName]
    /\ idx' = idx + 1
    /\ pace' = Delay(Request(pace))
    /\ UNCHANGED <<metadata, fetched, taskVars, rcwVars, crawl, listing, reply, matches>>

\* A failing turn that leaves the loop: no catch inside the loop
ruleAborted ==
    /\ crawl.scraper # "none"
    /\ idx < Len(rules)
    /\ idx' = Len(rules)
    /\ pace' = Request(pace)
    /\ UNCHANGED <<metadata, fetched, taskVars, rcwVars, courtVars, crawl, listing, rules, reply, matches>>

\* One turn of the loop in which the fetch or the extraction throws: the error
\* is caught and logged, and the loop goes on
ruleFailed ==
    /\ crawl.scraper # "none"
    /\ idx < Len(rules)
    /\ idx' = idx + 1
    /\ pace' = Delay(Request(pace))
    /\ UNCHANGED <<metadata, fetched, taskVars, rcwVars, courtVars, crawl, listing, rules, reply, matches>>

\* The loop is over and scrapeRuleSet returns
crawlDone ==
    /\ crawl.scraper # "none"
    /\ idx = Len(rules)
    /\ crawl' = Idle /\ listing' = << >> /\ rules' = << >> /\ idx' = 0
    /\ pace' = Rested
    /\ UNCHANGED <<metadata, fetched, taskVars, rcwVars, courtVars, reply, matches>>

(***************************************************************************)
(* Text extraction.  The text of a document is a sequence of pieces, each  *)
(* a run of len characters: a "heading" is the text the scraper's pattern  *)
(* matches ("<RuleSet> <ruleNumber>", "RCW <cite>"), "words" hold no       *)
(* match.  at names the part of the document a piece stands in.  The       *)
(* empty sequence is the empty string.                                     *)
(***************************************************************************)
Words(at, len) == [kind |-> "words", at |-> at, len |-> len]
Heading(at)    == [kind |-> "heading", at |-> at, len |-> 7]

\* fullText.length
RECURSIVE Length(_)
Length(text) == IF text = << >> THEN 0 ELSE text[1].len + Length(Tail(text))

\* fullText.search(pattern), fullText.indexOf(marker): the offset of the first
\* match, -1 without one
RECURSIVE Search(_)
Search(text) ==
    IF text = << >> THEN -1
    ELSE IF text[1].kind = "heading" THEN 0
    ELSE LET rest == Search(Tail(text))
         IN  IF rest = -1 THEN -1 ELSE text[1].len + rest

\* fullText.substring(start), for a start at which a piece begins
RECURSIVE Substring(_, _)
Substring(text, start) ==
    IF start <= 0 \/ text = << >> THEN text
    ELSE Substring(Tail(text), start - text[1].len)

\* No document has been worked on
NoDocument == [by |-> "none"]

\* The metadata table of a database that initializeDatabase created without
\* the script's setMetadata calls
NoMetadata == [key \in { } |-> ""]

\* A scraper that writes the time of each insert to metadata
LastUpdateStamped ==
    metadata' = [key \in DOMAIN metadata \cup { "last_update" } |->
                   IF key = "last_update" THEN "time of the crawl" ELSE metadata[key]]

\* The statements a scraper prepares are INSERT OR REPLACE INTO rcw,
\* court_rules or scraper_progress and SELECT COUNT(*): none names metadata
NoMetadataStatement == UNCHANGED metadata

\* if (ruleStart > 0 && ruleStart < 100) of RPCScraper and RALJScraper;
\* if (ruleStart > 0) of CourtRulesPDFScraperV2 and if (ruleIndex > 0) of
\* CourtRulesScraper
TopOfText == 100

DropsLeading(scraper, ruleStart) ==
    IF scraper \in { "RPCScraper", "RALJScraper" }
    THEN ruleStart > 0 /\ ruleStart < TopOfText
    ELSE ruleStart > 0

RuleContent(scraper, fullText) ==
    IF DropsLeading(scraper, Search(fullText))
    THEN Substring(fullText, Search(fullText))
    ELSE fullText

\* The text of the pages of a PDF, joined and cleaned: nothing at all, a few
\* words, or a rule that starts after a page header of 0, 40, 99, 100 or 150
\* characters
PdfTexts ==
    { << >>, << Words("page", 10) >> }
    \cup { (IF n = 0 THEN << >> ELSE << Words("header", n) >>)
           \o << Heading("page"), Words("page", 60) >> : n \in { 0, 40, 99, 100, 150 } }

\* const contentSelectors
contentSelectors ==
    << ".rule-content", ".content", "#content", ".main-content", "main", "article" >>

\* What a selector finds on a page: no element, an element without text, or
\* an element that holds the rule
ElementText(page, selector) ==
    IF page.elements[selector] = "text"
    THEN << Heading(selector), Words(selector, 60) >>
    ELSE << >>

\* $('body').text().trim(): the navigation the page keeps and the text of
\* its elements
RECURSIVE TextOfElements(_, _)
TextOfElements(page, selectors) ==
    IF selectors = << >> THEN << >>
    ELSE ElementText(page, Head(selectors)) \o TextOfElements(page, Tail(selectors))

BodyText(page) ==
    (IF page.nav = 0 THEN << >> ELSE << Words("navigation", page.nav) >>)
    \o TextOfElements(page, contentSelectors)

\* The rule pages: the first two selectors and main find nothing, an empty
\* element or the rule; the navigation left on the page is none or 150
\* characters
HtmlPages ==
    { [nav |-> nav,
       elements |-> [s \in { contentSelectors[i] : i \in DOMAIN contentSelectors } |->
                       IF s = ".rule-content" THEN first
                       ELSE IF s = ".content" THEN second
                       ELSE IF s = "main" THEN fifth ELSE "absent"]] :
        nav \in { 0, 150 },
        first \in { "absent", "empty", "text" },
        second \in { "absent", "empty", "text" },
        fifth \in { "absent", "text" } }

\* The loop over contentSelectors: content.length > 0 holds for the first
\* selector that finds an element, and the loop breaks there
RECURSIVE FirstMatch(_, _)
FirstMatch(page, selectors) ==
    IF selectors = << >> THEN << >>
    ELSE IF page.elements[Head(selectors)] # "absent"
    THEN ElementText(page, Head(selectors))
    ELSE FirstMatch(page, Tail(selectors))

\* if (!fullText) fullText = $('body').text().trim()
SelectedText(page) ==
    IF FirstMatch(page, contentSelectors) # << >>
    THEN FirstMatch(page, contentSelectors)
    ELSE BodyText(page)

\* CourtRulesScraper.scrapeRule for the first rule of a listing: the text is
\* selected, cut at the rule's heading and stored
scrapeRule ==
    /\ RoomForInsert
    /\ \E page \in HtmlPages :
         LET rule == RulesOnSite["CourtRulesScraper"]["CRLJ"][1]
             fullText == RuleContent("CourtRulesScraper", SelectedText(page))
         IN  /\ InsertOrReplaceCourtRule(
                  [rule_set    |-> rule.ruleSet,
                   rule_number |-> rule.ruleNumber,
                   rule_name   |-> rule.ruleName,
                   full_text   |-> fullText])
             /\ fetched' = [by |-> "CourtRulesScraper", document |-> page,
                            key |-> << rule.ruleSet, rule.ruleNumber >>,
                            fullText |-> fullText]
    /\ NoMetadataStatement
    /\ UNCHANGED <<taskVars, rcwVars, crawlVars, reply, matches>>

\* downloadAndParseRule of the PDF scrapers for the first rule of a listing:
\* the text of the pages is cut at the rule's heading and stored
parseRulePdf ==
    /\ RoomForInsert
    /\ \E scraper \in { "RPCScraper", "RALJScraper", "CourtRulesPDFScraperV2" } :
         \E text \in PdfTexts :
           LET ruleSet == IF scraper = "RPCScraper" THEN "RPC"
                          ELSE IF scraper = "RALJScraper" THEN "RALJ" ELSE "CRLJ"
               rule == RulesOnSite[scraper][ruleSet][1]
               fullText == RuleContent(scraper, text)
           IN  /\ InsertOrReplaceCourtRule(
                    [rule_set    |-> rule.ruleSet,
                     rule_number |-> rule.ruleNumber,
                     rule_name   |-> rule.ruleName,
                     full_text   |-> fullText])
               /\ fetched' = [by |-> scraper, document |-> text,
                              key |-> << rule.ruleSet, rule.ruleNumber >>,
                              fullText |-> fullText]
    /\ NoMetadataStatement
    /\ UNCHANGED <<taskVars, rcwVars, crawlVars, reply, matches>>

\* The body text of a section page, cleaned: nothing, a few words, or the
\* section after the menu of the site
SectionPages ==
    { << >>, << Words("body", 10) >>,
      << Words("menu", 150), Heading("body"), Words("body", 60) >> }

\* if (!fullText || fullText.length < 50) console.warn(...)
MinContent == 50
VeryLittleContent(fullText) == Length(fullText) < MinContent

\* A scraper that returns after its warning
SkippedWhenLittle(fullText) == ~VeryLittleContent(fullText)

\* Nothing follows the warning but the insert: insertStmt.run is reached
\* with every text
ReachesInsert(fullText) == TRUE

\* RCWScraper.scrapeSection for the section of title 46: the body text is
\* stored whole
scrapeSectionText ==
    /\ RoomForInsert
    /\ \E found \in { f \in RCWFound : f.title.num = << "4", "6" >> } :
         \E fullText \in SectionPages :
           /\ IF ReachesInsert(fullText)
              THEN InsertOrReplaceRCW(
                     [citation     |-> found.section.num,
                      title_num    |-> found.title.num,
                      chapter_num  |-> found.chapter.num,
                      section_num  |-> Last(Split(found.section.num)),
                      title_name   |-> found.title.name,
                      chapter_name |-> found.chapter.name,
                      section_name |-> found.section.name,
                      full_text    |-> fullText])
              ELSE UNCHANGED rcwVars
           /\ fetched' = [by |-> "RCWScraper", document |-> fullText,
                          key |-> found.section.num, fullText |-> fullText]
    /\ NoMetadataStatement
    /\ UNCHANGED <<taskVars, courtVars, crawlVars, reply, matches>>

\* SimpleRCWScraper.scrapeSection for the section of title 46: the body text
\* is cut at the first start marker found past offset 0 and stored
simpleScrapeSectionText ==
    /\ RoomForInsert
    /\ \E found \in { f \in SimpleFound : f.title.num = << "4", "6" >> } :
         \E text \in SectionPages :
           LET fullText == RuleContent("SimpleRCWScraper", text)
           IN  /\ InsertOrReplaceRCW(
                    [citation     |-> found.sectionNum,
                     title_num    |-> found.title.num,
                     chapter_num  |-> found.chapterNum,
                     section_num  |-> Last(Split(found.sectionNum)),
                     title_name   |-> found.title.name,
                     chapter_name |-> << "title" >> \o found.chapterNum,
                     section_name |-> << "title" >> \o found.sectionNum,
                     full_text    |-> fullText])
               /\ fetched' = [by |-> "SimpleRCWScraper", document |-> text,
                              key |-> found.sectionNum, fullText |-> fullText]
    /\ NoMetadataStatement
    /\ UNCHANGED <<taskVars, courtVars, crawlVars, reply, matches>>

(***************************************************************************)
(* LawDatabase: the connection.                                            *)
(***************************************************************************)
\* A connection whose calls write the time of the call to metadata
LastAccessWritten ==
    /\ metadata' = [metadata EXCEPT !.last_update = "time of the call"]
    /\ UNCHANGED <<rcwVars, courtVars, progress>>

\* new Database(DB_PATH, { readonly: true }): the statements of the query
\* layer are SELECTs on a connection that cannot write
ReadOnly == UNCHANGED <<rcwVars, courtVars, metadata, progress>>

(***************************************************************************)
(* LawDatabase: the hierarchical listings.                                 *)
(***************************************************************************)
\* The rows of S as a sequence in the order of an ORDER BY whose sort key is
\* compared by Before; rows that tie come in an order SQLite does not fix.
OrderBy(S, Before(_, _)) ==
    CHOOSE q \in [1..Cardinality(S) -> S] :
        /\ \A i, j \in DOMAIN q : i # j => q[i] # q[j]
        /\ \A i, j \in DOMAIN q : i < j => ~Before(q[j], q[i])

\* SELECT title_num, title_name, COUNT(*) FROM rcw GROUP BY title_num, title_name
\* ORDER BY CAST(title_num AS INTEGER), title_num
listRCWTitles ==
    LET groups == { [titleNum |-> r.title_num, titleName |-> r.title_name,
                     count |-> Cardinality({ x \in rcw : /\ x.title_num = r.title_num
                                                       /\ x.title_name = r.title_name })] :
                    r \in rcw }
        Before(a, b) ==
            \/ CastInteger(a.titleNum) < CastInteger(b.titleNum)
            \/ /\ CastInteger(a.titleNum) = CastInteger(b.titleNum)
               /\ StrLess(a.titleNum, b.titleNum)
    IN  OrderBy(groups, Before)

\* SELECT chapter_num, chapter_name, COUNT(*) FROM rcw WHERE title_num = ?
\* GROUP BY chapter_num, chapter_name ORDER BY chapter_num
listRCWChapters(titleNum) ==
    LET rows   == { r \in rcw : r.title_num = titleNum }
        groups == { [chapterNum |-> r.chapter_num, chapterName |-> r.chapter_name,
                     count |-> Cardinality({ x \in rows : /\ x.chapter_num = r.chapter_num
                                                        /\ x.chapter_name = r.chapter_name })] :
                    r \in rows }
        Before(a, b) == StrLess(a.chapterNum, b.chapterNum)
    IN  OrderBy(groups, Before)

\* SELECT citation, section_name FROM rcw WHERE chapter_num = ? ORDER BY citation
listRCWSections(chapterNum) ==
    LET rows == { [citation |-> r.citation, sectionName |-> r.section_name] :
                    r \in { x \in rcw : x.chapter_num = chapterNum } }
        Before(a, b) == StrLess(a.citation, b.citation)
    IN  OrderBy(rows, Before)

(***************************************************************************)
(* LawDatabase: lookups.                                                   *)
(***************************************************************************)
\* Table wac: the schema creates it and no scraper of the repository writes it
wac == { }

\* SELECT ... FROM rcw WHERE citation = ?  (no row: null)
getRCW(citation) ==
    { [citation |-> r.citation, titleNum |-> r.title_num, chapterNum |-> r.chapter_num,
       sectionNum |-> r.section_num, titleName |-> r.title_name,
       chapterName |-> r.chapter_name, sectionName |-> r.section_name,
       fullText |-> r.full_text] : r \in { x \in rcw : x.citation = citation } }

\* SELECT ... FROM wac WHERE citation = ?
getWAC(citation) ==
    { [citation |-> r.citation, fullText |-> r.full_text] :
        r \in { x \in wac : x.citation = citation } }

\* stmt.get(ruleSet, ruleNumber) of getCourtRule
SelectCourtRule(ruleSet, ruleNumber) ==
    { [ruleSet |-> r.rule_set, ruleNumber |-> r.rule_number,
       ruleName |-> r.rule_name, fullText |-> r.full_text] :
        r \in { x \in court_rules : x.rule_set = ruleSet /\ x.rule_number = ruleNumber } }

\* A test for "." that every rule number fails
NoDotSeen(ruleNumber) == FALSE

\* ruleNumber.includes(".")
IncludesDot(ruleNumber) == Includes(ruleNumber, ".")

\* getCourtRule: the numbers it queried, in order, and what it returns
GetCourtRule(ruleSet, ruleNumber) ==
    LET exact == SelectCourtRule(ruleSet, ruleNumber)
        retry == exact = { } /\ ~IncludesDot(ruleNumber)
    IN  [tried  |-> IF retry THEN << ruleNumber, ruleNumber \o << ".", "0" >> >>
                    ELSE << ruleNumber >>,
         result |-> IF retry THEN SelectCourtRule(ruleSet, ruleNumber \o << ".", "0" >>)
                    ELSE exact]

\* Rule numbers a caller asks for
AskedRuleNumbers ==
    { << "6", "0" >>, << "6", "0", ".", "0" >>, << "1", ".", "7" >>, << "7" >> }

getCourtRule ==
    /\ \E ruleSet \in { "IRLJ", "CRLJ" } :
         \E ruleNumber \in AskedRuleNumbers :
           reply' = [op |-> "getCourtRule", ruleSet |-> ruleSet, ruleNumber |-> ruleNumber]
                      @@ GetCourtRule(ruleSet, ruleNumber)
    /\ ReadOnly
    /\ UNCHANGED <<crawlVars, run, tasks, queue, fetched, matches>>

\* The characters of a rule-set name
RuleSetChars(ruleSet) ==
    CASE ruleSet = "RPC"  -> << "R", "P", "C" >>
      [] ruleSet = "RALJ" -> << "R", "A", "L", "J" >>
      [] ruleSet = "IRLJ" -> << "I", "R", "L", "J" >>
      [] ruleSet = "CRLJ" -> << "C", "R", "L", "J" >>

\* CAST(SUBSTR(rule_number, 1, INSTR(rule_number || '.', '.') - 1) AS INTEGER)
\* and CAST(SUBSTR(rule_number, INSTR(rule_number || '.', '.') + 1) AS INTEGER)
Major(n) == CastInteger(Take(n, RunLen(n, LAMBDA c : c # ".")))
Minor(n) == CastInteger(Drop(n, RunLen(n, LAMBDA c : c # ".") + 1))

\* listCourtRules: ORDER BY [rule_set,] CAST(part before the first dot AS
\* INTEGER), CAST(part after it AS INTEGER)
listCourtRules(ruleSet) ==
    LET rows == { [ruleSet |-> r.rule_set, ruleNumber |-> r.rule_number,
                   ruleName |-> r.rule_name] :
                    r \in { x \in court_rules : ruleSet = "" \/ x.rule_set = ruleSet } }
        Before(a, b) ==
            \/ ruleSet = "" /\ a.ruleSet # b.ruleSet
                 /\ StrLess(RuleSetChars(a.ruleSet), RuleSetChars(b.ruleSet))
            \/ /\ ruleSet # "" \/ a.ruleSet = b.ruleSet
               /\ \/ Major(a.ruleNumber) < Major(b.ruleNumber)
                  \/ /\ Major(a.ruleNumber) = Major(b.ruleNumber)
                     /\ Minor(a.ruleNumber) < Minor(b.ruleNumber)
    IN  OrderBy(rows, Before)

\* getStatistics
getStatistics ==
    [rcwCount |-> Cardinality(rcw), wacCount |-> Cardinality(wac),
     courtRulesCount |-> Cardinality(court_rules),
     lastUpdate |-> IF "last_update" \in DOMAIN metadata
                    THEN metadata.last_update ELSE "Unknown"]

(***************************************************************************)
(* LawDatabase.searchLaws                                                  *)
(***************************************************************************)
Families == << "RCW", "WAC", "Court Rule" >>

\* bm25 ranks: negative, the more negative the better the match
Ranks == { -2, -1 }

\* Math.floor(limit / 3), for the whole limit taken as the share of a family
WholeLimit(limit) == limit

\* Math.ceil(limit / 3)
RoundedUp(limit) == (limit + 2) \div 3

PerTypeLimit(limit) == limit \div 3

\* Array.prototype.slice(0, n): a negative n counts from the end
Slice(q, n) ==
    IF n >= 0 THEN Take(q, IF n < Len(q) THEN n ELSE Len(q))
    ELSE Take(q, IF Len(q) + n > 0 THEN Len(q) + n ELSE 0)

\* SELECT ... WHERE fts MATCH ? ORDER BY rank LIMIT n, over the matching rows
\* whose ranks are ranks, rows of one rank in rowid order; a negative LIMIT is
\* no limit.  A result names its row by the row's place among the matches.
QueryFamily(type, ranks, n) ==
    LET order == StableSort([i \in DOMAIN ranks |-> i], LAMBDA i, j : ranks[i] < ranks[j])
        taken == IF n < 0 \/ n > Len(order) THEN order ELSE Take(order, n)
    IN  [k \in DOMAIN taken |->
           [type |-> type, hit |-> taken[k],
            score |-> IF ranks[taken[k]] < 0 THEN -ranks[taken[k]] ELSE ranks[taken[k]]]]

\* The results array as pushed
Pushed(results) == results

\* results.sort((a, b) => (b.score || 0) - (a.score || 0))
SortByScore(results) == StableSort(results, LAMBDA a, b : a.score > b.score)

\* searchLaws(query, limit) when the query matches rows of ranks m[family];
\* courtRules tells whether the court-rule statement ran or threw and was
\* swallowed
SearchLaws(m, limit, courtRules) ==
    LET perTypeLimit == PerTypeLimit(limit)
        results == QueryFamily("RCW", m["RCW"], perTypeLimit)
                     \o QueryFamily("WAC", m["WAC"], perTypeLimit)
                     \o (IF courtRules
                         THEN QueryFamily("Court Rule", m["Court Rule"], perTypeLimit)
                         ELSE << >>)
    IN  Slice(SortByScore(results), limit)

\* Sequences over S of length at most n
SeqsUpTo(S, n) == UNION { [1..k -> S] : k \in 0..n }

NoMatches == [f \in { Families[i] : i \in DOMAIN Families } |-> << >>]

searchLaws ==
    /\ \E limit \in 0..MaxLimit :
         \E courtRules \in BOOLEAN :
           reply' = [op |-> "searchLaws", limit |-> limit, courtRules |-> courtRules,
                     results |-> SearchLaws(matches, limit, courtRules)]
    /\ ReadOnly
    /\ UNCHANGED <<crawlVars, run, tasks, queue, fetched, matches>>

(***************************************************************************)
(* The tool handler of the MCP server.                                     *)
(***************************************************************************)
\* Words of an indexed body, as the FTS5 tokenizer splits it
Tokens(fullText) ==
    IF fullText = "amended text" THEN { "amended", "text" } ELSE { fullText }

\* The ranks of the rows of an index that match a query and join a primary
\* row, in rowid order; bm25 gives every row the same rank when the bodies
\* differ by no queried word
StoreMatches(query) ==
    LET Hits(fts, table) ==
            { x.rowid : x \in { y \in fts : /\ query \in Tokens(y.full_text)
                                            /\ \E r \in table : r.id = y.rowid } }
    IN  [f \in DOMAIN NoMatches |->
           CASE f = "RCW" -> [i \in 1..Cardinality(Hits(rcw_fts, rcw)) |-> -1]
             [] f = "WAC" -> << >>
             [] f = "Court Rule" ->
                  [i \in 1..Cardinality(Hits(court_rules_fts, court_rules)) |-> -1]]

NoArgs ==
    [citation |-> << >>, ruleSet |-> "", ruleNumber |-> << >>, num |-> << >>, query |-> ""]

\* The arguments a caller sends with each tool
ToolArgs(name) ==
    CASE name \in { "get_rcw", "get_wac" } ->
           { [NoArgs EXCEPT !.citation = c] :
               c \in { << "9", ".", "4", "1", ".", "0", "1", "0" >>,
                       << "1", ".", "0", "4", ".", "0", "1", "0" >> } }
      [] name = "get_court_rule" ->
           { [NoArgs EXCEPT !.ruleSet = "CRLJ", !.ruleNumber = n] :
               n \in { << "6", "0" >>, << "1", ".", "7" >> } }
      [] name = "list_court_rules" ->
           { NoArgs, [NoArgs EXCEPT !.ruleSet = "CRLJ"] }
      [] name = "search_laws" ->
           { [NoArgs EXCEPT !.query = q] : q \in { "amended", "firearm" } }
      [] name = "list_rcw_chapters" -> { [NoArgs EXCEPT !.num = << "9" >>] }
      [] name = "list_rcw_sections" -> { [NoArgs EXCEPT !.num = << "9", ".", "4", "1" >>] }
      [] OTHER -> { NoArgs }

Tools ==
    { "get_rcw", "get_wac", "get_court_rule", "list_court_rules", "search_laws",
      "list_rcw_titles", "list_rcw_chapters", "list_rcw_sections", "get_statistics" }

\* The text of the response each case of the switch returns
ToolText(name, args) ==
    CASE name = "get_rcw" ->
           IF getRCW(args.citation) = { }
           THEN << "RCW " >> \o args.citation \o << " not found in database." >>
           ELSE << "# RCW " >> \o args.citation
      [] name = "get_wac" ->
           IF getWAC(args.citation) = { }
           THEN << "WAC " >> \o args.citation \o << " not found in database." >>
           ELSE << "# WAC " >> \o args.citation
      [] name = "get_court_rule" ->
           IF GetCourtRule(args.ruleSet, args.ruleNumber).result = { }
           THEN << args.ruleSet, " " >> \o args.ruleNumber \o << " not found in database." >>
           ELSE << "# ", args.ruleSet, " " >>
                  \o (CHOOSE r \in GetCourtRule(args.ruleSet, args.ruleNumber).result :
                        TRUE).ruleNumber
      [] name = "list_court_rules" ->
           IF Len(listCourtRules(args.ruleSet)) = 0
           THEN IF args.ruleSet # "" THEN << "No rules found for ", args.ruleSet >>
                ELSE << "No court rules found" >>
           ELSE IF args.ruleSet # "" THEN << "# ", args.ruleSet, " Rules" >>
                ELSE << "# Court Rules" >>
      [] name = "search_laws" ->
           IF Len(SearchLaws(StoreMatches(args.query), 20, TRUE)) = 0
           THEN << "No results found for query: ", args.query >>
           ELSE << "# Search Results for ", args.query >>
      [] name = "list_rcw_titles" -> << "# RCW Titles" >>
      [] name = "list_rcw_chapters" ->
           IF Len(listRCWChapters(args.num)) = 0
           THEN << "No chapters found for Title " >> \o args.num
           ELSE << "# RCW Title " >> \o args.num \o << " Chapters" >>
      [] name = "list_rcw_sections" ->
           IF Len(listRCWSections(args.num)) = 0
           THEN << "No sections found for Chapter " >> \o args.num
           ELSE << "# RCW Chapter " >> \o args.num \o << " Sections" >>
      [] name = "get_statistics" -> << "# Washington Law Database Statistics" >>

\* return { content: [{ type: "text", text }] }
Returned(text) == [outcome |-> "returned", text |-> text]

\* An exception that leaves the handler
Uncaught(message) == [outcome |-> "escaped", text |-> << message >>]

\* catch (error): the response with the text Error: <message>
Catch(message) == Returned(<< "Error: ", message >>)

\* One request: the switch on the tool name inside try, a statement of the
\* database layer throwing or not, and the default case throwing for a name
\* that is no tool
CallTool ==
    /\ \E name \in Tools \cup { "get_law" } :
         \E args \in ToolArgs(name) :
           \E threw \in BOOLEAN :
             /\ name \notin Tools => threw
             /\ reply' = [op |-> "CallTool", name |-> name, args |-> args, threw |-> threw]
                           @@ (IF name \notin Tools THEN Catch("Unknown tool: " \o name)
                               ELSE IF threw THEN Catch("SqliteError")
                               ELSE Returned(ToolText(name, args)))
    /\ ReadOnly
    /\ UNCHANGED <<crawlVars, run, tasks, queue, fetched, matches>>

(***************************************************************************)
(* Specifications.                                                         *)
(***************************************************************************)
Init ==
    /\ rcw = {} /\ rcw_fts = {} /\ rcw_seq = 0
    /\ court_rules = {} /\ court_rules_fts = {} /\ court_rules_seq = 0
    /\ crawl = Idle /\ listing = << >> /\ rules = << >> /\ idx = 0
    /\ pace = Rested
    /\ run = NotStarted /\ tasks = NoTasks /\ queue = << >> /\ progress = << >>
    /\ metadata = InitialMetadata
    /\ reply = NoReply
    /\ fetched = NoDocument
    /\ matches = NoMatches

\* The statute crawls
Next ==
    \/ SimpleScrapeSection
    \/ RCWScrapeSection

Spec == Init /\ [][Next]_vars

\* The rule crawls
NextRules ==
    \/ scrapeRPC
    \/ scrapeRALJ
    \/ scrapeRuleSetPDF
    \/ scrapeRuleSet
    \/ downloadAndParseRule
    \/ ruleFailed
    \/ crawlDone

SpecRules == Init /\ [][NextRules]_vars

\* getCourtRule while the two scrapers of IRLJ and CRLJ write court_rules
NextLookup ==
    \/ scrapeRuleSetPDF
    \/ scrapeRuleSet
    \/ downloadAndParseRule
    \/ ruleFailed
    \/ crawlDone
    \/ getCourtRule

SpecLookup == Init /\ [][NextLookup]_vars

\* Callers of the server while the simple statute scraper and the PDF scraper
\* of IRLJ and CRLJ write the database file
NextServer ==
    \/ SimpleScrapeSection
    \/ scrapeRuleSetPDF
    \/ downloadAndParseRule
    \/ crawlDone
    \/ CallTool

SpecServer == Init /\ [][NextServer]_vars

\* searchLaws over every outcome of the three MATCH queries
InitSearch ==
    /\ rcw = {} /\ rcw_fts = {} /\ rcw_seq = 0
    /\ court_rules = {} /\ court_rules_fts = {} /\ court_rules_seq = 0
    /\ crawl = Idle /\ listing = << >> /\ rules = << >> /\ idx = 0
    /\ pace = Rested
    /\ run = NotStarted /\ tasks = NoTasks /\ queue = << >> /\ progress = << >>
    /\ metadata = InitialMetadata
    /\ reply = NoReply
    /\ fetched = NoDocument
    /\ matches \in [DOMAIN NoMatches -> SeqsUpTo(Ranks, MaxHits)]

NextSearch == searchLaws

SpecSearch == InitSearch /\ [][NextSearch]_vars

\* Every scraper writing the one database file
NextCrawl == Next \/ NextRules

SpecCrawl == Init /\ [][NextCrawl]_vars

\* One run of RCWScraper.scrapeAllTitles
NextTasks ==
    \/ scrapeAllTitles
    \/ runAgain
    \/ rootFetched
    \/ rootFailed
    \/ titleFetched
    \/ titleFailed
    \/ titleCompleted
    \/ nextTitle
    \/ chapterFetched
    \/ chapterFailed
    \/ chapterCompleted
    \/ sectionFetched
    \/ sectionFailed
    \/ taskDone

SpecTasks == Init /\ [][NextTasks]_vars

\* Every request returns or fails and every timer fires: a run that can take
\* a step takes one
SpecTasksFair == SpecTasks /\ WF_vars(NextTasks)

\* The text extraction of every scraper, on the documents of the model
NextExtract ==
    \/ scrapeRule
    \/ parseRulePdf
    \/ scrapeSectionText
    \/ simpleScrapeSectionText

SpecExtract == Init /\ [][NextExtract]_vars

\* The same on a database with and without the metadata of the
\* initialization script
InitStats ==
    /\ rcw = {} /\ rcw_fts = {} /\ rcw_seq = 0
    /\ court_rules = {} /\ court_rules_fts = {} /\ court_rules_seq = 0
    /\ crawl = Idle /\ listing = << >> /\ rules = << >> /\ idx = 0
    /\ pace = Rested
    /\ run = NotStarted /\ tasks = NoTasks /\ queue = << >> /\ progress = << >>
    /\ metadata \in { InitialMetadata, NoMetadata }
    /\ reply = NoReply
    /\ fetched = NoDocument
    /\ matches = NoMatches

SpecStats == InitStats /\ [][NextExtract]_vars

(***************************************************************************)
(* Claims.                                                                 *)
(***************************************************************************)
RowIds(table)   == { r.id : r \in table }
IndexIds(index) == { x.rowid : x \in index }

\* C1: after any sequence of upserts, each family's search index holds exactly
\* one index row for every primary row and none without a primary row: the
\* index row ids are the primary row ids.  (Stated as the claim has it; the
\* statements of the scrapers break it.)
C1_IndexMatchesPrimary ==
    /\ IndexIds(rcw_fts) = RowIds(rcw)
    /\ Cardinality(rcw_fts) = Cardinality(rcw)
    /\ IndexIds(court_rules_fts) = RowIds(court_rules)
    /\ Cardinality(court_rules_fts) = Cardinality(court_rules)

\* The first two dot-separated components of a citation, and the first
CitationChapter(citation) ==
    IF Len(Split(citation)) >= 2
    THEN JoinDot(Split(citation)[1], Split(citation)[2])
    ELSE citation
CitationTitle(citation) == Split(citation)[1]

\* C3: every stored statute row has chapter_num equal to the first two
\* components of its citation and title_num equal to the first component, for
\* every title crawled, letter-suffixed titles included.  (Stated as the claim
\* has it; the rows stored for title 9A break it.)
C3_ChapterAndTitleOfCitation ==
    \A r \in rcw :
        /\ Len(Split(r.citation)) = 3
        /\ r.chapter_num = CitationChapter(r.citation)
        /\ r.title_num = CitationTitle(r.citation)

\* The integer value of the k-th dot-separated segment of a number
Segment(num, k) == IF Len(Split(num)) >= k THEN CastInteger(Split(num)[k]) ELSE 0

NonDecreasing(q, Key(_)) == \A i, j \in DOMAIN q : i < j => Key(q[i]) <= Key(q[j])

\* C8: listRCWTitles, listRCWChapters and listRCWSections return their children
\* in ascending order of the integer values of their numeric segments.  (Stated
\* as the claim has it; the chapter listing is in string order.)
C8_ListingsInIntegerOrder ==
    LET TitleKey(t)   == Segment(t.titleNum, 1)
        ChapterKey(c) == Segment(c.chapterNum, 2)
        SectionKey(x) == Segment(x.citation, 3)
    IN  /\ NonDecreasing(listRCWTitles, TitleKey)
        /\ \A r \in rcw : NonDecreasing(listRCWChapters(r.title_num), ChapterKey)
        /\ \A r \in rcw : NonDecreasing(listRCWSections(r.chapter_num), SectionKey)

(***************************************************************************)
(* C2: whatever crawls have run, no two rows of a table share their natural*)
(* key (citation; rule_set and rule_number), and a write of a key that is  *)
(* already stored puts the written row in the place of the stored one and  *)
(* leaves the number of rows as it was, while a write of a new key adds    *)
(* one row.                                                                *)
(***************************************************************************)
RCWKey(r) == r.citation
CourtRuleKey(r) == << r.rule_set, r.rule_number >>

KeysUnique ==
    /\ \A r1, r2 \in rcw : RCWKey(r1) = RCWKey(r2) => r1 = r2
    /\ \A r1, r2 \in court_rules : CourtRuleKey(r1) = CourtRuleKey(r2) => r1 = r2

Replaces(old, new, Key(_)) ==
    new # old =>
      \E w \in new \ old :
        /\ new = { r \in old : Key(r) # Key(w) } \cup { w }
        /\ Cardinality(new) =
             IF \E r \in old : Key(r) = Key(w) THEN Cardinality(old)
             ELSE Cardinality(old) + 1

C2_OneRowPerKey ==
    /\ []KeysUnique
    /\ [][/\ Replaces(rcw, rcw', RCWKey)
          /\ Replaces(court_rules, court_rules', CourtRuleKey)]_vars

\* A citation and a rule were each written twice, the second time with another
\* body, and each table holds the one row of the second write
C2_Reingested ==
    /\ rcw_seq + court_rules_seq = MaxRows
    /\ \/ /\ Cardinality(rcw) = 1
          /\ \E r \in rcw : r.id = 2 /\ r.full_text = "amended text"
       \/ /\ Cardinality(court_rules) = 1
          /\ \E r \in court_rules : r.id = 2 /\ r.full_text = "amended text"

(***************************************************************************)
(* C4: in a crawl of RPC, RALJ or the IRLJ/CRLJ PDF listing, two links     *)
(* whose file names encode the same (major, minor, sub) stand for one rule *)
(* number, and a file name with sub = 0 gives major.minor without zero     *)
(* padding.                                                                *)
(***************************************************************************)
Triple(fields) == << ParseInt(fields[1]), ParseInt(fields[2]), ParseInt(fields[3]) >>

FileNamedScrapers == { "RPCScraper", "RALJScraper", "CourtRulesPDFScraperV2" }

C4_SameTripleSameNumber ==
    crawl.scraper \in FileNamedScrapers =>
      /\ \A r1, r2 \in { rules[i] : i \in DOMAIN rules } :
           Triple(r1.pdfUrl.fields) = Triple(r2.pdfUrl.fields)
             => r1.ruleNumber = r2.ruleNumber
      /\ \A i \in DOMAIN rules :
           Triple(rules[i].pdfUrl.fields)[3] = 0
             => rules[i].ruleNumber =
                  JoinDot(IntToStr(Triple(rules[i].pdfUrl.fields)[1]),
                          IntToStr(Triple(rules[i].pdfUrl.fields)[2]))

(***************************************************************************)
(* C5: for every limit and every outcome of the queries, searchLaws        *)
(* returns at most limit results, and no result is followed by one of a    *)
(* strictly higher score.                                                  *)
(***************************************************************************)
C5_AtMostLimitSortedByScore ==
    reply.op = "searchLaws" =>
      /\ Len(reply.results) <= reply.limit
      /\ \A i, j \in DOMAIN reply.results :
           i < j => reply.results[i].score >= reply.results[j].score

\* A result of a later family was merged in front of a result of RCW
C5_Merged ==
    /\ reply.op = "searchLaws"
    /\ \E i, j \in DOMAIN reply.results :
         /\ i < j
         /\ reply.results[i].type # "RCW" /\ reply.results[j].type = "RCW"
         /\ reply.results[i].score > reply.results[j].score

(***************************************************************************)
(* C6: each of the three families contributes at most floor(limit / 3)     *)
(* results to what searchLaws returns.                                     *)
(***************************************************************************)
NumberOfFamilies == Len(Families)

Contribution(type) ==
    Cardinality({ i \in DOMAIN reply.results : reply.results[i].type = type })

C6_FamilyShare ==
    reply.op = "searchLaws" =>
      \A f \in DOMAIN matches : Contribution(f) <= reply.limit \div NumberOfFamilies

\* A family with more matches than its share contributed its share, one result
C6_ShareReached ==
    /\ reply.op = "searchLaws"
    /\ reply.limit \div NumberOfFamilies = 1
    /\ Len(matches["RCW"]) = 2
    /\ Contribution("RCW") = 1

(***************************************************************************)
(* C7: when exactly two families have matches and each of the two has      *)
(* fewer than limit / 2 of them, searchLaws returns every match of both.   *)
(***************************************************************************)
WithMatches == { f \in DOMAIN matches : matches[f] # << >> }

C7_UnionOfTwoFamilies ==
    ( /\ reply.op = "searchLaws"
      /\ reply.courtRules
      /\ Cardinality(WithMatches) = 2
      /\ \A f \in WithMatches : 2 * Len(matches[f]) < reply.limit )
    => \A f \in WithMatches :
         \A hit \in DOMAIN matches[f] :
           \E i \in DOMAIN reply.results :
             reply.results[i].type = f /\ reply.results[i].hit = hit

(***************************************************************************)
(* C9: getCourtRule returns the row of the exact rule number when there is *)
(* one; when there is none and the number has no dot, it queries once more,*)
(* for the number followed by .0, and returns that row or null; a number   *)
(* with a dot is queried once.                                             *)
(***************************************************************************)
StoredRule(ruleSet, ruleNumber) ==
    { [ruleSet |-> r.rule_set, ruleNumber |-> r.rule_number,
       ruleName |-> r.rule_name, fullText |-> r.full_text] :
        r \in { x \in court_rules : x.rule_set = ruleSet /\ x.rule_number = ruleNumber } }

GetCourtRuleAnswers(r) ==
    LET exact   == StoredRule(r.ruleSet, r.ruleNumber)
        dotZero == r.ruleNumber \o << ".", "0" >>
        dotted  == \E i \in DOMAIN r.ruleNumber : r.ruleNumber[i] = "."
    IN  /\ exact # { } => r.result = exact /\ r.tried = << r.ruleNumber >>
        /\ exact = { } /\ ~dotted =>
             /\ r.tried = << r.ruleNumber, dotZero >>
             /\ r.result = StoredRule(r.ruleSet, dotZero)
        /\ exact = { } /\ dotted =>
             /\ r.tried = << r.ruleNumber >>
             /\ r.result = { }

C9_RetryOnceWithDotZero ==
    [][reply' # reply /\ reply'.op = "getCourtRule" => GetCourtRuleAnswers(reply')]_vars

\* CRLJ 60 was asked for, only CRLJ 60.0 is stored, and the second query found it
C9_RetryFound ==
    /\ reply.op = "getCourtRule"
    /\ reply.ruleNumber = << "6", "0" >>
    /\ Len(reply.tried) = 2
    /\ \E r \in reply.result : r.ruleNumber = << "6", "0", ".", "0" >>

(***************************************************************************)
(* C10: every call of a tool, and of a name that is no tool, ends in a     *)
(* returned response; a lookup that finds no row returns the not-found     *)
(* text, and a call in which a statement threw returns a text that begins  *)
(* with Error: .                                                           *)
(***************************************************************************)
LookupMisses(r) ==
    CASE r.name = "get_rcw" -> \A x \in rcw : x.citation # r.args.citation
      [] r.name = "get_wac" -> TRUE
      [] r.name = "get_court_rule" ->
           \A x \in court_rules :
             x.rule_set = r.args.ruleSet =>
               /\ x.rule_number # r.args.ruleNumber
               /\ x.rule_number # r.args.ruleNumber \o << ".", "0" >>
      [] OTHER -> FALSE

ToolCallReturns(r) ==
    /\ r.outcome = "returned"
    /\ r.threw => Head(r.text) = "Error: "
    /\ ~r.threw /\ LookupMisses(r) =>
         /\ Head(r.text) # "Error: "
         /\ Last(r.text) = " not found in database."

C10_NoExceptionEscapes ==
    [][reply' # reply /\ reply'.op = "CallTool" => ToolCallReturns(reply')]_vars

\* A statement of get_court_rule threw and the caller got an Error: text
C10_ErrorReturned ==
    /\ reply.op = "CallTool"
    /\ reply.name = "get_court_rule"
    /\ reply.threw
    /\ reply.outcome = "returned"
    /\ Head(reply.text) = "Error: "

(***************************************************************************)
(* C11: a rule whose fetch, extraction or write fails is passed over and   *)
(* the loop goes on with the next rule: every turn of a run moves to the   *)
(* next rule of the listing, a run ends only after the last rule, and no   *)
(* turn removes a stored rule.                                             *)
(***************************************************************************)
StoredRuleKeys == { << r.rule_set, r.rule_number >> : r \in court_rules }

C11_ItemFailureIsolated ==
    [][/\ (crawl.scraper # "none" /\ crawl' = crawl) =>
            /\ idx' = idx + 1
            /\ Len(rules') = Len(rules)
            /\ StoredRuleKeys \subseteq StoredRuleKeys'
       /\ (crawl.scraper # "none" /\ crawl' # crawl) => idx = Len(rules)]_vars

\* A run is through its listing; a rule of it failed and a later one is stored
C11_LaterRuleStored ==
    /\ crawl.scraper # "none"
    /\ idx = Len(rules)
    /\ \E i, j \in DOMAIN rules :
         /\ i < j
         /\ << rules[i].ruleSet, rules[i].ruleNumber >> \notin StoredRuleKeys
         /\ << rules[j].ruleSet, rules[j].ruleNumber >> \in StoredRuleKeys

\* C14: whenever a rule crawl issues a request, a delay has ended since its
\* request before: no two requests of one crawl are issued back to back, the
\* listing request followed by the request for the first rule included
C14_DelayBetweenRequests == pace.burst <= 1

\* C12: the entry point of a crawl never ends by throwing the error of a
\* failed fetch again: scrapeAllTitles never rejects
C12_EntryPointCompletes == run.phase # "rejected"

\* C13: during a statute crawl at most 2 HTTP requests are in flight
C13_AtMostTwoInFlight == InFlight <= 2

\* Two requests are in flight and limit holds a third function back
C13_TwoInFlightOneHeldBack ==
    /\ InFlight = 2
    /\ queue # << >>

\* C15: when every request returns and every timer fires, a run of
\* scrapeAllTitles comes to its end
C15_CrawlReachesDone == <>(run.phase \in {"resolved", "rejected"})

\* The rule a scraper makes of one anchor of a listing, and whether it takes
\* the anchor for a rule link
IsRuleLink(scraper, ruleSet, a) ==
    CASE scraper = "RPCScraper" -> RPCIsRuleLink(a)
      [] scraper = "RALJScraper" -> RALJIsRuleLink(a)
      [] scraper = "CourtRulesPDFScraperV2" -> PDFIsRuleLink(ruleSet, a)
      [] scraper = "CourtRulesScraper" -> DisplayIsRuleLink(ruleSet, a)

RuleOfAnchor(scraper, ruleSet, a) ==
    CASE scraper = "RPCScraper" ->
           [ruleSet |-> ruleSet, ruleNumber |-> RPCRuleNumber(a.fields),
            ruleName |-> RPCRuleName(a, RPCRuleNumber(a.fields)), pdfUrl |-> PdfUrl(a)]
      [] scraper = "RALJScraper" ->
           [ruleSet |-> ruleSet, ruleNumber |-> RALJRuleNumber(a.fields),
            ruleName |-> RALJRuleName(a, RALJRuleNumber(a.fields)), pdfUrl |-> PdfUrl(a)]
      [] scraper = "CourtRulesPDFScraperV2" ->
           [ruleSet |-> ruleSet, ruleNumber |-> PDFRuleNumber(a.fields),
            ruleName |-> PDFRuleName(a, PDFRuleNumber(a.fields)), pdfUrl |-> PdfUrl(a)]
      [] scraper = "CourtRulesScraper" -> DisplayRule(ruleSet, a)

\* The first anchor of the listing, in document order, that the running
\* scraper turns into rule number n
FirstAnchorOf(n) ==
    LET Makes(i) == /\ IsRuleLink(crawl.scraper, crawl.ruleSet, listing[i])
                    /\ RuleOfAnchor(crawl.scraper, crawl.ruleSet, listing[i]).ruleNumber = n
    IN  listing[CHOOSE i \in DOMAIN listing :
                   Makes(i) /\ \A j \in 1..(i - 1) : ~Makes(j)]

\* C16: when a listing has been read, every rule number its anchors
\* normalize to is in the rules array exactly once, with the name and the
\* URL of the first anchor of that number
C16_FirstAnchorKept ==
    (crawl.scraper # "none" /\ idx = 0) =>
        /\ \A i, j \in DOMAIN rules :
             rules[i].ruleNumber = rules[j].ruleNumber => i = j
        /\ \A k \in DOMAIN listing :
             IsRuleLink(crawl.scraper, crawl.ruleSet, listing[k]) =>
               \E i \in DOMAIN rules :
                 rules[i].ruleNumber =
                   RuleOfAnchor(crawl.scraper, crawl.ruleSet, listing[k]).ruleNumber
        /\ \A i \in DOMAIN rules :
             rules[i] = RuleOfAnchor(crawl.scraper, crawl.ruleSet,
                                     FirstAnchorOf(rules[i].ruleNumber))

\* A rule number as (major, minor, sub-part): major.minor and what follows
NumberParts(n) ==
    LET n1   == RunLen(n, IsDigit)
        rest == Drop(n, n1 + 1)
        n2   == RunLen(rest, IsDigit)
    IN  [major |-> ParseInt(Take(n, n1)),
         minor |-> IF n2 = 0 THEN 0 ELSE ParseInt(Take(rest, n2)),
         sub   |-> Drop(rest, n2)]

\* A sub-part is a letter or a dot and a number; none comes first
SubPartLess(s, t) ==
    IF s # << >> /\ t # << >> /\ Head(s) = "." /\ Head(t) = "."
    THEN PartsLess(Split(Tail(s)), Split(Tail(t)))
    ELSE StrLess(s, t)

NumberLess(m, n) ==
    LET a == NumberParts(m)
        b == NumberParts(n)
    IN  \/ a.major < b.major
        \/ a.major = b.major /\ a.minor < b.minor
        \/ a.major = b.major /\ a.minor = b.minor /\ SubPartLess(a.sub, b.sub)

\* C17: a crawl holds the rules of a listing in ascending order of (major,
\* minor, sub-part), and the ORDER BY of listCourtRules puts a stored rule
\* before every rule of its set that has a higher (major, minor, sub-part)
C17_AscendingOrder ==
    /\ \A i, j \in DOMAIN rules :
         i < j => ~NumberLess(rules[j].ruleNumber, rules[i].ruleNumber)
    /\ \A a, b \in court_rules :
         (a.rule_set = b.rule_set /\ NumberLess(a.rule_number, b.rule_number)) =>
             \/ Major(a.rule_number) < Major(b.rule_number)
             \/ /\ Major(a.rule_number) = Major(b.rule_number)
                /\ Minor(a.rule_number) < Minor(b.rule_number)

StoredCitations == { r.citation : r \in rcw }

\* C18: no step of a crawl removes a citation or a (rule_set, rule_number)
\* pair from the store, and a lookup that finds a row finds one after the step
C18_KeysOnlyGrow ==
    [][/\ StoredCitations \subseteq StoredCitations'
       /\ StoredRuleKeys \subseteq StoredRuleKeys'
       /\ rcw' # rcw =>
            \A citation \in StoredCitations : (getRCW(citation) # { })'
       /\ court_rules' # court_rules =>
            \A ruleSet \in { r.rule_set : r \in court_rules } :
              \A ruleNumber \in AskedRuleNumbers \cup
                                  { r.rule_number : r \in court_rules } :
                GetCourtRule(ruleSet, ruleNumber).result # { } =>
                  (GetCourtRule(ruleSet, ruleNumber).result # { })']_vars

\* A stored court rule was ingested again, its row replaced, and the lookup
\* of its key finds the new row
C18_FoundAfterRecrawl ==
    /\ court_rules_seq = 2
    /\ Cardinality(court_rules) = 1
    /\ \E r \in court_rules :
         /\ r.id = 2
         /\ GetCourtRule(r.rule_set, r.rule_number).result # { }

\* C19: a step in which the query layer answers a call leaves the primary
\* tables, their search indexes, the metadata table and the progress ledger
\* as they were
C19_QueriesLeaveStoreUnchanged ==
    [][reply' # reply =>
         /\ rcw' = rcw /\ rcw_fts' = rcw_fts /\ rcw_seq' = rcw_seq
         /\ court_rules' = court_rules /\ court_rules_fts' = court_rules_fts
         /\ court_rules_seq' = court_rules_seq
         /\ metadata' = metadata
         /\ progress' = progress]_vars

\* A tool call was answered from a store that holds a section and a rule
C19_AnsweredFromStore ==
    /\ reply.op = "CallTool"
    /\ rcw # { }
    /\ court_rules # { }

\* C20: listRCWTitles has one entry for each stored title number and no
\* other, and the count of the entry is the number of stored sections of
\* that title
C20_OneEntryPerTitle ==
    LET list == listRCWTitles
    IN  /\ \A i \in DOMAIN list : \E r \in rcw : r.title_num = list[i].titleNum
        /\ \A titleNum \in { r.title_num : r \in rcw } :
             /\ Cardinality({ i \in DOMAIN list : list[i].titleNum = titleNum }) = 1
             /\ \A i \in DOMAIN list :
                  list[i].titleNum = titleNum =>
                    list[i].count = Cardinality({ r \in rcw : r.title_num = titleNum })

(***************************************************************************)
(* Text extraction and what reaches the store.                             *)
(***************************************************************************)
\* The row the store holds under the key of the item last worked on, with
\* the text extracted for it
StoredAsExtracted ==
    IF fetched.by \in { "RCWScraper", "SimpleRCWScraper" }
    THEN \E r \in rcw : r.citation = fetched.key /\ r.full_text = fetched.fullText
    ELSE \E r \in court_rules :
           /\ << r.rule_set, r.rule_number >> = fetched.key
           /\ r.full_text = fetched.fullText

\* C21: an item whose extracted text is empty or shorter than the minimal
\* content length is stored all the same: after any scraper has worked on
\* it, the table holds a row under its citation or rule number with that
\* text.
C21_LittleTextStillStored ==
    (fetched.by # "none" /\ VeryLittleContent(fetched.fullText)) => StoredAsExtracted

\* RCWScraper has stored a section whose page held ten characters
C21_ShortSectionStored ==
    /\ fetched.by = "RCWScraper"
    /\ Length(fetched.fullText) = 10
    /\ StoredAsExtracted

\* C22: every row of a primary table has a non-empty full_text (a write
\* whose text is empty after cleanup never reaches the table).
C22_NoEmptyFullText ==
    /\ \A r \in rcw : r.full_text # << >>
    /\ \A r \in court_rules : r.full_text # << >>

\* The text of the first selector, in the order of contentSelectors, whose
\* element holds text; the empty text when there is none
RECURSIVE FirstNonEmpty(_, _)
FirstNonEmpty(page, selectors) ==
    IF selectors = << >> THEN << >>
    ELSE IF ElementText(page, Head(selectors)) # << >>
    THEN ElementText(page, Head(selectors))
    ELSE FirstNonEmpty(page, Tail(selectors))

\* C23: the text CourtRulesScraper stores for a rule page is the text of the
\* first content selector whose match is non-empty, an empty match being
\* passed over for the next selector; the text of the whole body is used
\* only when no selector yields text.
C23_FirstNonEmptySelector ==
    fetched.by = "CourtRulesScraper" =>
        fetched.fullText =
            RuleContent("CourtRulesScraper",
                        IF FirstNonEmpty(fetched.document, contentSelectors) # << >>
                        THEN FirstNonEmpty(fetched.document, contentSelectors)
                        ELSE BodyText(fetched.document))

\* C24: in each of the three PDF scrapers the text before the rule's heading
\* is dropped only when the heading starts past offset 0 and below offset
\* 100; a heading found later leaves the text whole.
C24_LeadingDroppedNearTopOnly ==
    fetched.by \in { "RPCScraper", "RALJScraper", "CourtRulesPDFScraperV2" } =>
        LET ruleStart == Search(fetched.document)
        IN  fetched.fullText =
                IF ruleStart > 0 /\ ruleStart < TopOfText
                THEN Substring(fetched.document, ruleStart)
                ELSE fetched.document

(***************************************************************************)
(* The progress ledger.                                                    *)
(***************************************************************************)
\* C25: scraper_progress holds one record per unit: no two rows name the
\* same title or the same chapter, a later write for a unit replacing the
\* earlier record.
C25_OneRecordPerUnit ==
    \A i, j \in DOMAIN progress :
        (/\ progress[i].title_num = progress[j].title_num
         /\ progress[i].chapter_num = progress[j].chapter_num) => i = j

(***************************************************************************)
(* Rule numbers across scrapers and across the files of a listing.         *)
(***************************************************************************)
\* C26: a rule of IRLJ or CRLJ has one row whichever scrapers stored it:
\* the number CourtRulesScraper reads from the anchor text and the number
\* CourtRulesPDFScraperV2 reads from the file name are the same string, so
\* two rows of one rule set never stand for the same (major, minor,
\* sub-part).
C26_OneRowPerRuleAcrossScrapers ==
    \A r1, r2 \in court_rules :
        (/\ r1.rule_set \in { "IRLJ", "CRLJ" }
         /\ r1.rule_set = r2.rule_set
         /\ NumberParts(r1.rule_number) = NumberParts(r2.rule_number)) => r1 = r2

\* C27: when a file-named scraper has read a listing, two rule links whose
\* file names encode different (major, minor, sub) triples have different
\* rule numbers, and the document of every rule link is the document of
\* some rule of the rules array.
C27_DistinctTriplesDistinctNumbers ==
    (crawl.scraper \in FileNamedScrapers /\ idx = 0) =>
        LET links == { k \in DOMAIN listing :
                         IsRuleLink(crawl.scraper, crawl.ruleSet, listing[k]) }
            NumberOf(k) == RuleOfAnchor(crawl.scraper, crawl.ruleSet, listing[k]).ruleNumber
        IN  /\ \A k1, k2 \in links :
                 Triple(listing[k1].fields) # Triple(listing[k2].fields)
                   => NumberOf(k1) # NumberOf(k2)
            /\ \A k \in links :
                 \E i \in DOMAIN rules :
                   Triple(rules[i].pdfUrl.fields) = Triple(listing[k].fields)

(***************************************************************************)
(* The size of what searchLaws returns.                                    *)
(***************************************************************************)
\* C28: searchLaws returns at most 3 * floor(limit / 3) results however
\* many rows match; for limit 1 or 2 it returns none; and when one family
\* alone has matches it returns at most floor(limit / 3).
C28_AtMostThreeShares ==
    reply.op = "searchLaws" =>
      /\ Len(reply.results) <= 3 * (reply.limit \div 3)
      /\ reply.limit \in { 1, 2 } => reply.results = << >>
      /\ Cardinality(WithMatches) = 1 => Len(reply.results) <= reply.limit \div 3

\* Every family has matches, the limit is 2 and the result is empty
C28_EmptyDespiteMatches ==
    /\ reply.op = "searchLaws"
    /\ reply.limit = 2
    /\ reply.courtRules
    /\ \A f \in DOMAIN matches : Len(matches[f]) = 2
    /\ reply.results = << >>

(***************************************************************************)
(* What the ledger says of a unit.                                         *)
(***************************************************************************)
\* The request for the page of the unit a ledger row names is in flight
OwnPageInFlight(row) ==
    \/ /\ row.chapter_num = Null
       /\ run.phase = "title"
       /\ run.titleLinks[run.t].num = row.title_num
    \/ /\ row.title_num = Null
       /\ \E k \in DOMAIN tasks :
            /\ tasks[k].parent = 0
            /\ tasks[k].phase = "fetch"
            /\ tasks[k].link.num = row.chapter_num

\* C29: a row is written to the ledger with status 'error' only by the step
\* in which the request for that title's or chapter's own page fails; every
\* other row written, whatever became of the sections of the chapter or the
\* chapters of the title, has status 'completed'.
C29_ErrorOnlyForOwnPage ==
    [][Len(progress') > Len(progress) =>
         LET row == progress'[Len(progress')]
         IN  /\ row.status \in { "error", "completed" }
             /\ row.status = "error" <=> OwnPageInFlight(row)]_vars

\* A chapter is recorded as completed although the request for its section
\* failed and the section is not stored
C29_CompletedDespiteFailedSection ==
    \E k \in DOMAIN tasks :
      /\ tasks[k].parent # 0
      /\ tasks[k].phase = "done"
      /\ \A r \in rcw : r.citation # tasks[k].link.num
      /\ \E i \in DOMAIN progress :
           /\ progress[i].chapter_num = tasks[tasks[k].parent].link.num
           /\ progress[i].status = "completed"

====
